---- MODULE Spec2Model ----
(***************************************************************************)
(* NSEClient.download_stock_data (src/clients/nse_client.py): the          *)
(* incremental fetch-and-merge of one symbol's price history.              *)
(*                                                                         *)
(* A table (DataFrame) is a sequence of rows; a row is a record            *)
(* [date, val]: the DATE cell and the rest of the row (the prices) as one  *)
(* opaque payload.  An optional value (None or a table) is a sequence of   *)
(* length 0 or 1.                                                          *)
(***************************************************************************)
EXTENDS Integers, Sequences, FiniteSets, TLC

\* ---------------------------------------------------------------- bounds
NumDates == 4
MaxSeedLen == 2
MaxResp == 1
MaxRaw == 2
MaxChunkRows == 1
MaxChunkDays == 2

NoDate == 0
Dates == 1..NumDates
Vals == {"x", "y"}
Rows == [date : Dates, val : Vals]

None == <<>>
Some(x) == <<x>>
IsNone(o) == Len(o) = 0
Get(o) == o[1]

\* ---------------------------------------------------------------- tables
EmptyDf == <<>>

DateSet(df) == {df[i].date : i \in DOMAIN df}

SetMin(S) == CHOOSE m \in S : \A x \in S : m <= x
SetMax(S) == CHOOSE m \in S : \A x \in S : x <= m

\* existing_df['DATE'].min() / .max()
SeriesMin(df) == SetMin(DateSet(df))
SeriesMax(df) == SetMax(DateSet(df))

RECURSIVE SetToAsc(_)
SetToAsc(S) == IF S = {} THEN <<>> ELSE <<SetMin(S)>> \o SetToAsc(S \ {SetMin(S)})

\* the rows of df at the (ascending) positions idx
Take(df, idx) == [k \in 1..Cardinality(idx) |-> df[SetToAsc(idx)[k]]]

\* pd.concat(all_data, ignore_index=True)
RECURSIVE Concat(_)
Concat(dfs) == IF dfs = <<>> THEN <<>> ELSE Head(dfs) \o Concat(Tail(dfs))

\* drop_duplicates(subset=['DATE'], keep='first'), a faulty variant of keep='last'
DropDuplicatesFirst(df) ==
    Take(df, {i \in DOMAIN df : \A j \in DOMAIN df : j < i => df[j].date # df[i].date})

\* a faulty variant: no deduplication at all
DropDuplicatesNone(df) == df

\* drop_duplicates(subset=['DATE'], keep='last')
DropDuplicates(df) ==
    Take(df, {i \in DOMAIN df : \A j \in DOMAIN df : j > i => df[j].date # df[i].date})

\* stable insertion of row r into a table sorted descending by date
RECURSIVE InsertDesc(_, _)
InsertDesc(r, s) ==
    IF s = <<>> THEN <<r>>
    ELSE IF Head(s).date >= r.date THEN <<Head(s)>> \o InsertDesc(r, Tail(s))
    ELSE <<r>> \o s

RECURSIVE InsertAsc(_, _)
InsertAsc(r, s) ==
    IF s = <<>> THEN <<r>>
    ELSE IF Head(s).date <= r.date THEN <<Head(s)>> \o InsertAsc(r, Tail(s))
    ELSE <<r>> \o s

\* sort_values(by='DATE'), ascending: a faulty variant of ascending=False
RECURSIVE SortValuesAsc(_)
SortValuesAsc(df) ==
    IF df = <<>> THEN <<>>
    ELSE InsertAsc(df[Len(df)], SortValuesAsc(SubSeq(df, 1, Len(df) - 1)))

\* a faulty variant: the merged table is not sorted
SortValuesNone(df) == df

\* sort_values(by='DATE', ascending=False)
RECURSIVE SortValues(_)
SortValues(df) ==
    IF df = <<>> THEN <<>>
    ELSE InsertDesc(df[Len(df)], SortValues(SubSeq(df, 1, Len(df) - 1)))

\* ------------------------------------------------------- the environment
\* What the normalizers hand back for one fetched range: at most one row per
\* date, ascending by date (nse_client.py:166-167, 216-217).  The provider
\* decides the dates, so they need not lie inside the requested range.  The
\* rows of one response carry the same payload.
Responses ==
    UNION { { [i \in 1..Cardinality(S) |-> [date |-> SetToAsc(S)[i], val |-> v]] :
                v \in Vals } :
            S \in {T \in SUBSET Dates : Cardinality(T) <= MaxResp} }

\* the files a run may find that it did not write itself (the tests seed
\* files in ascending order): any rows in any order, or none (header only)
SeedTables == UNION { [1..n -> Rows] : n \in 0..MaxSeedLen }

Absent == [st |-> "absent", rows |-> <<>>]
Corrupt == [st |-> "corrupt", rows |-> <<>>]
Csv(df) == [st |-> "ok", rows |-> df]

\* ------------------------------------------------- the raw provider data
\* A raw table is what a provider hands over before normalization: its date
\* cells are text, parseable (a date of Dates) or not (BadText).
NaT == 0
BadText == -1
RawRows == [date : Dates \cup {BadText}, val : Vals]
RawTables == UNION { [1..n -> RawRows] : n \in 0..MaxRaw }

\* pd.to_datetime(cell, errors='coerce').dt.date
ParseDate(c) == IF c \in Dates THEN c ELSE NaT

CoerceDates(rows) ==
    [i \in DOMAIN rows |-> [date |-> ParseDate(rows[i].date), val |-> rows[i].val]]

\* a faulty variant: rows with a null date are kept
DropNaNone(df) == df

\* dropna(subset=["DATE"])
DropNa(df) == Take(df, {i \in DOMAIN df : df[i].date # NaT})

\* sort_values(by="DATE") of the normalizers: ascending, stable
RECURSIVE SortByDate(_)
SortByDate(df) ==
    IF df = <<>> THEN <<>>
    ELSE InsertAsc(df[Len(df)], SortByDate(SubSeq(df, 1, Len(df) - 1)))

\* _normalize_jugaad_stock_df: None or empty gives the empty canonical table
NormalizeJugaad(raw) ==
    IF raw = <<>> THEN EmptyDf
    ELSE SortByDate(DropDuplicates(DropNa(CoerceDates(raw))))

\* the normalized table of one chunk: dates parsed, null dates dropped
NormalizeChunk(raw) == DropNa(CoerceDates(raw))

\* a faulty variant: of the rows of one date the first is kept
NselibOutKeepFirst(chunks) ==
    IF chunks = <<>> THEN EmptyDf
    ELSE SortByDate(DropDuplicatesFirst(DropNa(CoerceDates(Concat(chunks)))))

\* what _fetch_equity_history_nselib returns after the loop
NselibOut(chunks) ==
    IF chunks = <<>> THEN EmptyDf
    ELSE SortByDate(DropDuplicates(DropNa(CoerceDates(Concat(chunks)))))

VARIABLES
    file,           \* the symbol's CSV file: Absent, Corrupt or Csv(rows)
    fileWritten,    \* the file's content was written by download_stock_data
    db,             \* max(date) of the symbol's rows in stock_prices: NoDate
                    \* when the symbol has no row or there is no database
    today,          \* date.today()
    upstreamFixed,  \* the provider answers from the fixed table `upstream`
    upstream,       \* [Dates -> Vals \cup {"-"}], "-" for a date without data
    run,            \* number of invocations made under SpecIdem
    start1,         \* the file when the first invocation under SpecIdem began
    dbStatus,       \* "ok", or why the lookup cannot be made: "unconfigured",
                    \* "missing" (no database file), "error" (connect or query fails)
    diskFaulty,     \* to_csv may fail
    rawUpstream,    \* the providers answer with raw tables, normalized by the client
    dbLog,          \* what the latest max-date lookup did with its connection, in order
    pc,             \* position of the invocation in download_stock_data
    from_date, to_date,
    db_max_date,    \* NoDate for None
    existing_df,    \* None or Some(table)
    new_data_list,  \* the tables the fetches returned, in fetch order
    calls,          \* the ranges <<f, t>> given to the resolver, in order
    failed,         \* the positions in `calls` of the fetches that raised
    badSeen,        \* a raw table fetched by the invocation held an unparseable date
    err,            \* the class of the exception the invocation raised, "-" for none
    returned,       \* None or Some(table): the value returned
    wrote,          \* number of to_csv calls of this invocation
    file0           \* the file when the invocation began

\* fetch_with_primary_and_fallback and _fetch_equity_history_nselib
VARIABLES
    rpc,            \* position in the resolver: "idle", "primary", "chunks", "returned"
    rf, rt,         \* the resolver's sub-range [f, t]
    chunk_days,     \* self.chunk_days
    primary,        \* the outcomes of the primary attempts, in order
    secondary,      \* the ranges given to _fetch_equity_history_nselib, in order
    start,          \* start of the next chunk
    all_chunks,     \* the normalized tables of the chunks fetched so far
    chunkCalls,     \* the windows <<start, end>> asked of price_volume_data
    chunkOut,       \* what price_volume_data did for each window, in order
    result,         \* None or Some(table): what the resolver returned
    resultCols      \* the column names of the table returned

resolver == <<rpc, rf, rt, chunk_days, primary, secondary, start, all_chunks,
              chunkCalls, chunkOut, result, resultCols>>

\* download_index_data
VARIABLES
    ipc,            \* position: "idle", "fetch", "save", "done", "raised"
    ifile,          \* the index's CSV file
    ifile0,         \* the index file when the invocation began
    ifrom, ito,     \* the requested range
    icalls,         \* the ranges asked of index_data, in order
    iresp,          \* what index_data did: "-", "rows", "empty", "none", "timeout", "error"
    idf,            \* None or Some(table): df
    ierr,           \* the class of the exception raised, "-" for none
    iwrote          \* number of to_csv calls of this invocation

index == <<ipc, ifile, ifile0, ifrom, ito, icalls, iresp, idf, ierr, iwrote>>

\* download_all_stocks and download_all_indices
VARIABLES
    bpc,                    \* position: "idle", "loop", "call", "done", "raised"
    driver,                 \* "stocks" or "indices"
    symbols,                \* the list the driver was given
    bi,                     \* the loop's i: entries begun so far
    successful_downloads,
    failed_downloads,
    attempted,              \* the symbols handed to the client, in order
    errs,                   \* per finished entry, the exception its download raised ("-" for none)
    marks,                  \* per finished entry, "ok" or "failed" as the driver counted it
    files,                  \* the cache directory: file name -> file
    dbs,                    \* per symbol, the max(date) stored in stock_prices
    start_date, end_date,
    berr                    \* the exception that left the driver, "-" for none

batch == <<bpc, driver, symbols, bi, successful_downloads, failed_downloads, attempted,
           errs, marks, files, dbs, start_date, end_date, berr>>

\* two runs of download_stock_data at once
VARIABLES
    cur,        \* the run whose frame is in the locals: 0 before the runs start, else 1 or 2
    csym,       \* the symbol of each run
    cpath,      \* the file name of each run
    saved,      \* the frame of the run that is not scheduled
    cfiles,     \* the cache directory: file name -> file (cur's file is in `file`)
    cfiles0     \* the cache directory when the runs began

conc == <<cur, csym, cpath, saved, cfiles, cfiles0>>

\* NSEClient._timeout around one fetch attempt, and the work between attempts
VARIABLES
    tphase,     \* what the client is doing: "idle", an attempt ("primary", "chunk",
                \* "index"), or work between attempts ("normalize", "chunk_normalize",
                \* "concat", "merge", "write", "index_save"), "done", "raised"
    tpc,        \* position in _timeout: "-" outside it, "signal", "alarm", "body",
                \* "cancel", "restore", "left"
    alarm,      \* a SIGALRM is pending (signal.alarm armed and not yet expired)
    handler,    \* the process's SIGALRM handler: "SIG_DFL" or "_handle"
    oldHandler, \* the handler _timeout saved on entry (old)
    outcome,    \* how the attempt ended: "-", "ok", "nodata", "error", "timeout"
    chunksLeft, \* chunks the secondary source still has to ask for
    hits        \* where TimeoutError was raised so far: <<tphase, tpc>> pairs

timer == <<tphase, tpc, alarm, handler, oldHandler, outcome, chunksLeft, hits>>

\* the column normalizers applied to one raw table
VARIABLES
    npc,        \* "idle", "called", "done"
    normalizer, \* "nselib" (one chunk of the secondary source) or "jugaad" (primary)
    rawCols,    \* the raw table's column names, in order
    rawRows,    \* the raw table's rows: the cells of its date column and a payload
    seriesArg,  \* the series argument: None or Some(series)
    outCols,    \* the normalized table's column names, in order
    outFrom,    \* per column of outCols, where its values come from
    outRows,    \* the normalized table's rows
    nout        \* "-", "df" (a table), "skipped" (chunk not appended), "KeyError"

norm == <<npc, normalizer, rawCols, rawRows, seriesArg, outCols, outFrom, outRows, nout>>

\* _clean_numeric and pd.to_numeric applied to one cell
VARIABLES
    cellpc,     \* "idle", "called", "done"
    rawCell,    \* the cell's text, a sequence of characters
    cleaned,    \* the text after _clean_numeric
    parsed      \* what pd.to_numeric gave: NaN, a number, or an exception

cell == <<cellpc, rawCell, cleaned, parsed>>

\* load_stock_data and load_index_data of load_to_duckdb
VARIABLES
    lpc,        \* "idle", "loading", "done", "raised"
    lkind,      \* "stocks" (load_stock_data) or "indices" (load_index_data)
    csvs,       \* per name of the universe, the rows of its CSV file
    prices,     \* the rows of stock_prices / index_prices: [date, symbol, val]
    prices0,    \* the table when the load began
    csvsLoaded, \* the CSV files as the previous load found them
    lpending,   \* the files os.listdir has still to yield
    loads,      \* the loads finished so far
    lerr        \* the exception that ended the load, "-" for none

loader == <<lpc, lkind, csvs, prices, prices0, csvsLoaded, lpending, loads, lerr>>

\* the variables of the remaining operations
rest == <<timer, norm, cell, loader>>

\* the variables of the other operations, untouched by download_stock_data
ext == <<resolver, index, batch, conc, rest>>

\* the faults and the raw provider data, for the specifications that have them
faults == <<dbStatus, diskFaulty, rawUpstream, dbLog>>

env == <<file, fileWritten, db, today, upstreamFixed, upstream, run, start1,
         faults, ext>>
locals == <<pc, from_date, to_date, db_max_date, existing_df, new_data_list,
            calls, failed, badSeen, err, returned, wrote, file0>>
vars == <<env, locals>>

NoUpstream == [d \in Dates |-> "-"]

\* the database answers, the disk takes every write, the providers' tables
\* are taken as already normalized
NoFaults ==
    /\ dbStatus = "ok"
    /\ diskFaulty = FALSE
    /\ rawUpstream = FALSE
    /\ dbLog = <<>>

\* the resolver at rest
ResolverIdle ==
    /\ rpc = "idle"
    /\ rf = 1 /\ rt = 1
    /\ chunk_days = 1
    /\ primary = <<>>
    /\ secondary = <<>>
    /\ start = 1
    /\ all_chunks = <<>>
    /\ chunkCalls = <<>>
    /\ chunkOut = <<>>
    /\ result = None
    /\ resultCols = {}

\* download_index_data at rest
IndexLocalsIdle ==
    /\ ipc = "idle"
    /\ ifrom = 1 /\ ito = 1
    /\ icalls = <<>>
    /\ iresp = "-"
    /\ idf = None
    /\ ierr = "-"
    /\ iwrote = 0
    /\ ifile0 = ifile

IndexIdle ==
    /\ ifile = Absent
    /\ IndexLocalsIdle

\* the names in a universe, and the file names they are cached under
Symbols == {"A", "B C"}
FileNames == {"A", "B C", "B_C"}

\* no driver is running
BatchIdle ==
    /\ bpc = "idle"
    /\ driver = "stocks"
    /\ symbols = <<>>
    /\ bi = 0
    /\ successful_downloads = 0
    /\ failed_downloads = <<>>
    /\ attempted = <<>>
    /\ errs = <<>>
    /\ marks = <<>>
    /\ files = [n \in FileNames |-> Absent]
    /\ dbs = [n \in Symbols |-> NoDate]
    /\ start_date = 1 /\ end_date = 1
    /\ berr = "-"

\* the frame of an invocation: its locals
Frame ==
    [pc |-> pc, from_date |-> from_date, to_date |-> to_date, db_max_date |-> db_max_date,
     existing_df |-> existing_df, new_data_list |-> new_data_list, calls |-> calls,
     failed |-> failed, badSeen |-> badSeen, err |-> err, returned |-> returned,
     wrote |-> wrote, file0 |-> file0]

\* the frame of download_stock_data(symbol, f, t, filename) on entry, the file being f0
FreshFrame(f, t, f0) ==
    [pc |-> "db", from_date |-> f, to_date |-> t, db_max_date |-> NoDate,
     existing_df |-> None, new_data_list |-> <<>>, calls |-> <<>>,
     failed |-> {}, badSeen |-> FALSE, err |-> "-", returned |-> None,
     wrote |-> 0, file0 |-> f0]

\* no concurrent runs
ConcIdle ==
    /\ cur = 0
    /\ csym = <<"A", "A">>
    /\ cpath = <<"A", "A">>
    /\ saved = FreshFrame(1, 1, Absent)
    /\ cfiles = [n \in FileNames |-> Absent]
    /\ cfiles0 = cfiles

\* no fetch attempt under way, the process's default SIGALRM handler installed
TimerIdle ==
    /\ tphase = "idle"
    /\ tpc = "-"
    /\ alarm = FALSE
    /\ handler = "SIG_DFL"
    /\ oldHandler = "SIG_DFL"
    /\ outcome = "-"
    /\ chunksLeft = 0
    /\ hits = {}

\* no raw table handed over
NormIdle ==
    /\ npc = "idle"
    /\ normalizer = "nselib"
    /\ rawCols = <<>>
    /\ rawRows = <<>>
    /\ seriesArg = None
    /\ outCols = <<>>
    /\ outFrom = <<>>
    /\ outRows = <<>>
    /\ nout = "-"

\* no cell handed over
CellIdle ==
    /\ cellpc = "idle"
    /\ rawCell = <<>>
    /\ cleaned = <<>>
    /\ parsed = [kind |-> "-"]

\* no load under way, an empty database, no CSV rows
LoaderIdle ==
    /\ lpc = "idle"
    /\ lkind = "stocks"
    /\ csvs = [s \in Symbols |-> <<>>]
    /\ prices = {}
    /\ prices0 = {}
    /\ csvsLoaded = csvs
    /\ lpending = {}
    /\ loads = 0
    /\ lerr = "-"

RestIdle == TimerIdle /\ NormIdle /\ CellIdle /\ LoaderIdle

InitExt == ResolverIdle /\ IndexIdle /\ BatchIdle /\ ConcIdle /\ RestIdle

InitLocals ==
    /\ pc = "idle"
    /\ from_date = 1 /\ to_date = 1
    /\ db_max_date = NoDate
    /\ existing_df = None
    /\ new_data_list = <<>>
    /\ calls = <<>>
    /\ failed = {}
    /\ badSeen = FALSE
    /\ err = "-"
    /\ returned = None
    /\ wrote = 0
    /\ file0 = file

Init ==
    /\ file \in {Absent, Corrupt} \cup {Csv(t) : t \in SeedTables}
    /\ fileWritten = FALSE
    /\ db \in {NoDate} \cup Dates
    /\ today \in Dates
    /\ run = 0
    /\ start1 = Absent
    /\ upstreamFixed = FALSE
    /\ upstream = NoUpstream
    /\ NoFaults
    /\ InitExt
    /\ InitLocals

\* download_stock_data(symbol, from_date, to_date, filename) is entered
Begin(f, t) ==
    /\ pc' = "db"
    /\ from_date' = f /\ to_date' = t
    /\ db_max_date' = NoDate
    /\ existing_df' = None
    /\ new_data_list' = <<>>
    /\ calls' = <<>>
    /\ failed' = {}
    /\ badSeen' = FALSE
    /\ err' = "-"
    /\ returned' = None
    /\ wrote' = 0

Invoke(f, t, td) ==
    /\ today' = td
    /\ Begin(f, t)
    /\ file0' = file
    /\ UNCHANGED <<file, fileWritten, db, upstreamFixed, upstream, faults, ext>>

\* any request, on the same or a later day than the previous one
Call ==
    /\ pc = "idle"
    /\ \E f \in Dates, t \in Dates, td \in today..NumDates : Invoke(f, t, td)
    /\ UNCHANGED <<run, start1>>

\* a faulty variant: a failing query yields the date of an earlier lookup
QueryMaxDateStale(status, stored) == stored

\* db_max_date after lines 238-257: the lookup is made only when a database
\* is configured and its file exists, and an exception from connect, execute
\* or close is logged and leaves None
QueryMaxDate(status, stored) == IF status = "ok" THEN stored ELSE NoDate

\* a faulty variant: the exception of a failing lookup is not caught
LookupOutcomeUncaught(status) == IF status = "error" THEN "raised" ELSE "read"

\* where the invocation is after the lookup: at the file read, whatever the
\* lookup did (try ... except Exception: log)
LookupOutcome(status) == "read"

\* a faulty variant: the connection is closed after the query, without finally
DbEventsNoFinally(status) ==
    IF status = "ok" THEN {<<"connect_read_only", "select", "close">>}
    ELSE IF status = "error"
    THEN {<<"connect_failed">>, <<"connect_read_only", "select_failed">>}
    ELSE {<<>>}

\* what lines 237-257 do with the database: nothing when no database is
\* configured or its file is missing; else duckdb.connect(read_only=True),
\* which may fail, then the SELECT, which may fail, then con.close() in the
\* finally clause
DbEvents(status) ==
    IF status = "ok" THEN {<<"connect_read_only", "select", "close">>}
    ELSE IF status = "error"
    THEN {<<"connect_failed">>, <<"connect_read_only", "select_failed", "close">>}
    ELSE {<<>>}

\* con.execute("SELECT max(date) ... WHERE symbol = ?").fetchone()
DbLookup ==
    /\ pc = "db"
    /\ dbLog' \in DbEvents(dbStatus)
    /\ db_max_date' = QueryMaxDate(dbStatus, db)
    /\ pc' = LookupOutcome(dbStatus)
    /\ UNCHANGED <<file, fileWritten, db, today, upstreamFixed, upstream, run, start1,
                   dbStatus, diskFaulty, rawUpstream, ext>>
    /\ UNCHANGED <<from_date, to_date, existing_df, new_data_list, calls,
                   failed, badSeen, err, returned, wrote, file0>>

\* pd.read_csv(filename) guarded by os.path.exists and try/except
LoadExisting(f) == IF f.st = "ok" THEN Some(f.rows) ELSE None

ReadFile ==
    /\ pc = "read"
    /\ existing_df' = LoadExisting(file)
    /\ pc' = "check"
    /\ UNCHANGED <<env, from_date, to_date, db_max_date, new_data_list, calls,
                   failed, badSeen, err, returned, wrote, file0>>

NonEmpty(o) == ~IsNone(o) /\ Get(o) # EmptyDf

\* the table has a row whose DATE is null (a blank cell of the file)
HasNaT(df) == \E i \in DOMAIN df : df[i].date = NaT

\* max_date_in_file of the early skip; NoDate for None.  max() of an object
\* column holding a null raises TypeError or gives NaN (pandas fills the nulls
\* with -inf before comparing); the try/except leaves None, and NaN equals no
\* date
MaxDateInFile(o) ==
    IF NonEmpty(o) /\ ~HasNaT(Get(o)) THEN SeriesMax(Get(o)) ELSE NoDate

\* a faulty variant: only the file's date is compared with today
UpToDateFileOnly(dbm, fm, td) == fm # NoDate /\ fm = td

\* (db_max_date == today) or (max_date_in_file == today)
UpToDate(dbm, fm, td) == (dbm # NoDate /\ dbm = td) \/ (fm # NoDate /\ fm = td)

\* the early skip, and the branch on the existing file that follows it
EarlySkip ==
    /\ pc = "check"
    /\ IF UpToDate(db_max_date, MaxDateInFile(existing_df), today)
       THEN /\ returned' = (IF IsNone(existing_df) THEN Some(EmptyDf) ELSE existing_df)
            /\ pc' = "done"
       ELSE /\ returned' = returned
            /\ pc' = IF NonEmpty(existing_df) THEN "before"
                     ELSE IF db_max_date # NoDate THEN "dbafter"
                     ELSE "full"
    /\ UNCHANGED <<env, from_date, to_date, db_max_date, existing_df, new_data_list,
                   calls, failed, badSeen, err, wrote, file0>>

\* ------------------------------------------------------------ the fetches
Raised == [kind |-> "raise", df |-> <<>>, bad |-> FALSE]
Ok(df) == [kind |-> "df", df |-> df, bad |-> FALSE]

\* the raw table has a date cell that cannot be parsed
HasBad(raw) == \E i \in DOMAIN raw : raw[i].date = BadText

\* the raw tables a provider may answer one fetch with
RawResponses == {r \in RawTables : Len(r) <= MaxResp}

\* the resolver's table for a raw answer of the primary (normalized by
\* _normalize_jugaad_stock_df) or of the secondary (one chunk, normalized by
\* _fetch_equity_history_nselib)
ResolveRaw ==
    {[kind |-> "df", df |-> NormalizeJugaad(r), bad |-> HasBad(r)] : r \in RawResponses}
        \cup {[kind |-> "df", df |-> NselibOut(IF r = <<>> THEN <<>> ELSE <<NormalizeChunk(r)>>),
                bad |-> HasBad(r)] : r \in RawResponses}

\* the rows the fixed upstream table has in [f, t], ascending
UpstreamDf(f, t) ==
    LET S == {d \in Dates : f <= d /\ d <= t /\ upstream[d] # "-"}
    IN [i \in 1..Cardinality(S) |-> [date |-> SetToAsc(S)[i], val |-> upstream[SetToAsc(S)[i]]]]

\* fetch_with_primary_and_fallback(f, t): a normalized table, or an exception
\* that escaped both the primary and the secondary source
Resolve(f, t) ==
    IF upstreamFixed THEN {Ok(UpstreamDf(f, t))}
    ELSE IF rawUpstream THEN {Raised} \cup ResolveRaw
    ELSE {Raised} \cup {Ok(r) : r \in Responses}

\* a faulty variant: a failed fetch ends the invocation
AfterFailureAbort(next) == "raised"

\* except Exception as e: self._log(...): the invocation goes on
AfterFailure(next) == next

\* try: new_data_list.append(fetch_with_primary_and_fallback(f, t))
\* except Exception: log
Fetch(f, t, next) ==
    /\ \E o \in Resolve(f, t) :
          /\ new_data_list' = IF o.kind = "df" THEN Append(new_data_list, o.df)
                              ELSE new_data_list
          /\ failed' = IF o.kind = "df" THEN failed ELSE failed \cup {Len(calls) + 1}
          /\ badSeen' = (badSeen \/ o.bad)
          /\ pc' = IF o.kind = "df" THEN next ELSE AfterFailure(next)
    /\ calls' = Append(calls, <<f, t>>)
    /\ UNCHANGED <<env, from_date, to_date, db_max_date, existing_df, err,
                   returned, wrote, file0>>

\* an exception of class e leaves download_stock_data
Raise(e) ==
    /\ pc' = "raised"
    /\ err' = e
    /\ UNCHANGED <<env, from_date, to_date, db_max_date, existing_df, new_data_list,
                   calls, failed, badSeen, returned, wrote, file0>>

Skip(next) ==
    /\ pc' = next
    /\ UNCHANGED <<env, from_date, to_date, db_max_date, existing_df, new_data_list,
                   calls, failed, badSeen, err, returned, wrote, file0>>

\* a faulty variant: the backfill is also issued when from_date equals the file's min
BackfillNeededLeq(f, fmin) == f <= fmin

\* from_date < min_date_in_file
BackfillNeeded(f, fmin) == f < fmin

\* a faulty variant: the file's max date is always used
EffectiveMaxFile(dbm, fmax) == fmax

\* a faulty variant: the later of the two dates is used
EffectiveMaxGreater(dbm, fmax) == IF dbm # NoDate /\ dbm > fmax THEN dbm ELSE fmax

\* effective_max_existing = db_max_date if db_max_date is not None else max_date_in_file
EffectiveMax(dbm, fmax) == IF dbm # NoDate THEN dbm ELSE fmax

\* a faulty variant: the fetch starts on the database's max date itself
FromAfterSame(dbm) == dbm

\* from_after = db_max_date + timedelta(days=1)
FromAfter(dbm) == dbm + 1

\* existing file with rows: the backfill before the file's first date
\* a faulty variant: the nulls are skipped by min() and max()
MinMaxRaisesNever(df) == FALSE

\* existing_df['DATE'].min() at line 306, outside any try: with a null among
\* the dates the comparison of a date with the fill value raises TypeError
\* (with nulls only, min() is NaN and from_date < NaN raises at line 312)
MinMaxRaises(df) == HasNaT(df)

Before ==
    /\ pc = "before"
    /\ IF MinMaxRaises(Get(existing_df))
       THEN Raise("TypeError")
       ELSE LET min_date_in_file == SeriesMin(Get(existing_df))
            IN IF BackfillNeeded(from_date, min_date_in_file)
               THEN Fetch(from_date, min_date_in_file - 1, "after")
               ELSE Skip("after")

\* existing file with rows: the extension after the effective max date
After ==
    /\ pc = "after"
    /\ LET effective_max_existing ==
               EffectiveMax(db_max_date, SeriesMax(Get(existing_df)))
       IN IF to_date > effective_max_existing
          THEN Fetch(effective_max_existing + 1, to_date, "merge")
          ELSE Skip("merge")

\* no file, or a file without rows, and the database has an end date
DbAfter ==
    /\ pc = "dbafter"
    /\ IF FromAfter(db_max_date) <= to_date
       THEN Fetch(FromAfter(db_max_date), to_date, "merge")
       ELSE Skip("merge")

\* no file, or a file without rows, and no database end date: the full range
Full ==
    /\ pc = "full"
    /\ Fetch(from_date, to_date, "merge")

\* ------------------------------------------------------ the merge and save
\* a faulty variant: the merge and the write are never skipped
NothingNewNever(ndl, ex) == FALSE

\* not new_data_list and existing_df is not None
NothingNew(ndl, ex) == ndl = <<>> /\ ~IsNone(ex)

\* a faulty variant: the merge starts from the fetched tables alone
AllDataNewOnly(ex, ndl) == ndl

\* a faulty variant: the empty tables are left out of the merge
AllDataNonEmpty(ex, ndl) ==
    SelectSeq((IF IsNone(ex) THEN <<>> ELSE <<Get(ex)>>) \o ndl, LAMBDA df : df # <<>>)

\* all_data = [existing_df] if existing_df is not None else []; extend(new_data_list)
AllData(ex, ndl) == (IF IsNone(ex) THEN <<>> ELSE <<Get(ex)>>) \o ndl

\* concat, drop_duplicates(keep='last'), sort_values(ascending=False)
Combined(all_data) == SortValues(DropDuplicates(Concat(all_data)))

\* what df.to_csv(filename, index=False) does to the file `old`: it stores
\* the whole table, or (on a faulty disk) raises OSError, leaving the file as
\* it was (the open failed), empty, or with the first rows only
WriteOutcomes(faulty, old, df) ==
    {[ok |-> TRUE, file |-> Csv(df)]}
        \cup (IF faulty
              THEN {[ok |-> FALSE, file |-> f] :
                        f \in {old, Corrupt} \cup {Csv(SubSeq(df, 1, k)) : k \in 0..(Len(df) - 1)}}
              ELSE {})

\* a faulty variant: the exception of to_csv is caught and the table returned
AfterWriteFailureSwallow == "done"

\* to_csv is outside any try: its exception leaves download_stock_data
AfterWriteFailure == "raised"

MergeAndSave ==
    /\ pc = "merge"
    /\ IF NothingNew(new_data_list, existing_df)
       THEN /\ returned' = existing_df
            /\ pc' = "done"
            /\ UNCHANGED <<file, fileWritten, wrote, err>>
       ELSE LET all_data == AllData(existing_df, new_data_list)
            IN IF all_data = <<>>
               THEN \* pd.concat([]) raises ValueError: No objects to concatenate
                    /\ pc' = "raised"
                    /\ err' = "ValueError"
                    /\ UNCHANGED <<file, fileWritten, wrote, returned>>
               ELSE \E w \in WriteOutcomes(diskFaulty, file, Combined(all_data)) :
                       /\ file' = w.file
                       /\ IF w.ok
                          THEN /\ fileWritten' = TRUE
                               /\ wrote' = wrote + 1
                               /\ returned' = Some(Combined(all_data))
                               /\ pc' = "done"
                               /\ err' = err
                          ELSE /\ fileWritten' = (fileWritten /\ w.file = file)
                               /\ pc' = AfterWriteFailure
                               /\ err' = "OSError"
                               /\ UNCHANGED <<wrote, returned>>
    /\ UNCHANGED <<db, today, upstreamFixed, upstream, run, start1, faults, ext,
                   from_date, to_date, db_max_date, existing_df, new_data_list,
                   calls, failed, badSeen, file0>>

\* the caller has the result (or the exception); the invocation's frame is gone
Leave ==
    /\ pc' = "idle"
    /\ from_date' = 1 /\ to_date' = 1
    /\ db_max_date' = NoDate
    /\ existing_df' = None
    /\ new_data_list' = <<>>
    /\ calls' = <<>>
    /\ failed' = {}
    /\ badSeen' = FALSE
    /\ err' = "-"
    /\ returned' = None
    /\ wrote' = 0

Return ==
    /\ pc \in {"done", "raised"}
    /\ Leave
    /\ file0' = file
    /\ UNCHANGED env

Run == DbLookup \/ ReadFile \/ EarlySkip \/ Before \/ After \/ DbAfter \/ Full
          \/ MergeAndSave

Next == Call \/ Run \/ Return

Spec == Init /\ [][Next]_vars

\* ------------------------------------------- two runs, a fixed upstream
\* The same request made twice on the same day, the provider answering both
\* times from one fixed table and the database left as it is.
UpstreamTables == [Dates -> {"y", "-"}]

\* the files found by the first run hold stale rows: all of payload "x"
StaleTables == {t \in SeedTables : \A i \in DOMAIN t : t[i].val = "x"}

InitIdem ==
    /\ file \in {Absent, Corrupt} \cup {Csv(t) : t \in StaleTables}
    /\ fileWritten = FALSE
    /\ db \in {NoDate} \cup Dates
    /\ today \in Dates
    /\ run = 0
    /\ start1 = Absent
    /\ upstreamFixed = TRUE
    /\ upstream \in UpstreamTables
    /\ NoFaults
    /\ InitExt
    /\ InitLocals

CallFirst ==
    /\ pc = "idle" /\ run = 0
    /\ \E f \in Dates, t \in Dates : Invoke(f, t, today)
    /\ run' = 1
    /\ start1' = file

CallAgain ==
    /\ pc \in {"done", "raised"} /\ run = 1
    /\ Invoke(from_date, to_date, today)
    /\ run' = 2
    /\ UNCHANGED start1

NextIdem == CallFirst \/ CallAgain \/ Run

SpecIdem == InitIdem /\ [][NextIdem]_vars

\* --------------------------------------------- a database that may fail
\* As Spec, with a database that may be unconfigured, missing or failing
\* while its table holds a max date for the symbol.
DbStates ==
    {[status |-> "ok", stored |-> d] : d \in {NoDate} \cup Dates}
        \cup {[status |-> "error", stored |-> d] : d \in {NoDate} \cup Dates}
        \cup {[status |-> s, stored |-> NoDate] : s \in {"unconfigured", "missing"}}

InitDb ==
    /\ file \in {Absent, Corrupt} \cup {Csv(t) : t \in StaleTables}
    /\ fileWritten = FALSE
    /\ \E d \in DbStates : dbStatus = d.status /\ db = d.stored
    /\ today \in Dates
    /\ run = 0
    /\ start1 = Absent
    /\ upstreamFixed = FALSE
    /\ upstream = NoUpstream
    /\ diskFaulty = FALSE
    /\ rawUpstream = FALSE
    /\ dbLog = <<>>
    /\ InitExt
    /\ InitLocals

SpecDb == InitDb /\ [][Next]_vars

\* ------------------------------------ raw provider data and null dates
\* As Spec, with providers that answer with raw tables (normalized by the
\* client) and files that may hold rows with a blank date cell.
NullSeedTables ==
    UNION { [1..n -> [date : Dates \cup {NaT}, val : {"x"}]] : n \in 0..MaxSeedLen }

InitNull ==
    /\ file \in {Absent} \cup {Csv(t) : t \in NullSeedTables}
    /\ fileWritten = FALSE
    /\ db \in {NoDate} \cup Dates
    /\ today \in Dates
    /\ run = 0
    /\ start1 = Absent
    /\ upstreamFixed = FALSE
    /\ upstream = NoUpstream
    /\ dbStatus = "ok"
    /\ diskFaulty = FALSE
    /\ rawUpstream = TRUE
    /\ dbLog = <<>>
    /\ InitExt
    /\ InitLocals

SpecNull == InitNull /\ [][Next]_vars

\* ----------------------------------------- the primary/fallback resolver
\* an exception: its class, and whether its message contains "CH_"
Exceptions == [type : {"TimeoutError", "KeyError", "Exception"}, ch : BOOLEAN]
NoExc == [type |-> "-", ch |-> FALSE]

\* what one call of stock_df does: returns a raw table or raises
PrimaryOutcomes ==
    {[kind |-> "returned", raw |-> r, exc |-> NoExc] : r \in RawTables}
        \cup {[kind |-> "raise", raw |-> <<>>, exc |-> e] : e \in Exceptions}

\* what one call of price_volume_data does: returns None or a raw table, with
\* or without a date column, or raises
ChunkTables == UNION { [1..n -> RawRows] : n \in 0..MaxChunkRows }
ChunkOutcomes ==
    {[kind |-> "returned", hasDate |-> TRUE, raw |-> r] : r \in ChunkTables}
        \cup {[kind |-> "returned", hasDate |-> FALSE, raw |-> r] :
                r \in {c \in ChunkTables : c # <<>> /\ \A i \in DOMAIN c :
                                                        c[i] = [date |-> BadText, val |-> "x"]}}
        \cup {[kind |-> k, hasDate |-> FALSE, raw |-> <<>>] : k \in {"timeout", "error"}}

\* a faulty variant: the empty table is built without column names
NoColumns == {}

\* the columns of the empty table and of every table the secondary returns
CanonicalColumns ==
    {"DATE", "OPEN", "HIGH", "LOW", "PREVCLOSE", "LTP", "CLOSE", "VWAP", "VOLUME", "VALUE",
     "NOOFTRADES", "SYMBOL", "SERIES"}

\* the columns of the table stock_df returns
StockDfColumns ==
    {"DATE", "SERIES", "OPEN", "HIGH", "LOW", "PREV. CLOSE", "LTP", "CLOSE", "VWAP",
     "52W H", "52W L", "VOLUME", "VALUE", "NO OF TRADES", "SYMBOL"}

\* the columns _normalize_jugaad_stock_df gives a table of columns cols:
\* two renames, the 52-week columns dropped, SYMBOL and SERIES ensured
NormalizedColumns(cols) ==
    ((cols \ {"PREV. CLOSE", "NO OF TRADES", "52W H", "52W L"})
        \cup (IF "PREV. CLOSE" \in cols THEN {"PREVCLOSE"} ELSE {})
        \cup (IF "NO OF TRADES" \in cols THEN {"NOOFTRADES"} ELSE {}))
        \cup {"SYMBOL", "SERIES"}

\* a faulty variant: the exception of a chunk leaves the fetcher
OnChunkFailureAbort(kind) == "raised"

\* except TimeoutError / except Exception: log; finally: start = end + 1
OnChunkFailure(kind) == "chunks"

\* a faulty variant: every KeyError counts as 'no data'
IsNoDataAnyKeyError(e) == e.type = "KeyError"

\* a faulty variant: no exception counts as 'no data'
IsNoDataNever(e) == FALSE

\* isinstance(e, KeyError) and ("CH_" in str(e))
IsNoData(e) == e.type = "KeyError" /\ e.ch

\* a faulty variant: a timeout of the primary is not retried on the secondary
FallsBackNoTimeout(e) == e.type # "TimeoutError" /\ ~IsNoData(e)

\* except TimeoutError -> nselib; except Exception -> nselib unless 'no data'
FallsBack(e) == e.type = "TimeoutError" \/ ~IsNoData(e)

StockIdle ==
    /\ file = Absent
    /\ fileWritten = FALSE
    /\ db = NoDate
    /\ today = 1
    /\ run = 0
    /\ start1 = Absent
    /\ upstreamFixed = FALSE
    /\ upstream = NoUpstream
    /\ NoFaults
    /\ InitLocals

stockVars == <<file, fileWritten, db, today, upstreamFixed, upstream, run, start1,
               faults, locals>>

notResolver == <<stockVars, index, batch, conc, rest>>

InitResolver ==
    /\ StockIdle
    /\ ResolverIdle
    /\ IndexIdle
    /\ BatchIdle
    /\ ConcIdle
    /\ RestIdle

\* fetch_with_primary_and_fallback(f, t) is entered
ResolveCall ==
    /\ rpc = "idle"
    /\ \E f \in Dates, t \in Dates, n \in 1..MaxChunkDays :
          /\ rf' = f /\ rt' = t
          /\ chunk_days' = n
    /\ rpc' = "primary"
    /\ UNCHANGED <<primary, secondary, start, all_chunks, chunkCalls, chunkOut, result,
                   resultCols, notResolver>>

\* _fetch_equity_history_nselib(from_date=f, to_date=t) is entered:
\* if from_date > to_date: return the empty canonical table
EnterSecondary ==
    /\ secondary' = Append(secondary, <<rf, rt>>)
    /\ all_chunks' = <<>>
    /\ start' = rf
    /\ IF rf > rt
       THEN result' = Some(EmptyDf) /\ resultCols' = CanonicalColumns /\ rpc' = "returned"
       ELSE result' = result /\ resultCols' = resultCols /\ rpc' = "chunks"

\* the primary attempt under the timeout, its normalization and the handlers
Primary ==
    /\ rpc = "primary"
    /\ \E o \in PrimaryOutcomes :
          /\ primary' = Append(primary, [kind |-> o.kind, exc |-> o.exc])
          /\ IF o.kind = "returned"
             THEN /\ result' = Some(NormalizeJugaad(o.raw))
                  /\ resultCols' = IF o.raw = <<>> THEN CanonicalColumns
                                   ELSE NormalizedColumns(StockDfColumns)
                  /\ rpc' = "returned"
                  /\ UNCHANGED <<secondary, start, all_chunks>>
             ELSE IF FallsBack(o.exc)
             THEN EnterSecondary
             ELSE /\ result' = Some(EmptyDf)
                  /\ resultCols' = CanonicalColumns
                  /\ rpc' = "returned"
                  /\ UNCHANGED <<secondary, start, all_chunks>>
    /\ UNCHANGED <<rf, rt, chunk_days, chunkCalls, chunkOut, notResolver>>

\* a faulty variant: the end of the last window is not clamped to to_date
ChunkEndNoClamp(s, n, t) == s + n - 1

\* end = min(start + timedelta(days=self.chunk_days - 1), to_date)
ChunkEnd(s, n, t) == IF s + n - 1 < t THEN s + n - 1 ELSE t

\* one pass of the while loop: one window asked of price_volume_data
Chunk ==
    /\ rpc = "chunks"
    /\ start <= rt
    /\ LET end == ChunkEnd(start, chunk_days, rt)
       IN /\ chunkCalls' = Append(chunkCalls, <<start, end>>)
          /\ \E o \in ChunkOutcomes :
                /\ chunkOut' = Append(chunkOut, o)
                /\ all_chunks' = IF o.kind = "returned" /\ o.raw # <<>> /\ o.hasDate
                                 THEN Append(all_chunks, NormalizeChunk(o.raw))
                                 ELSE all_chunks
                /\ rpc' = IF o.kind \in {"timeout", "error"} THEN OnChunkFailure(o.kind)
                          ELSE "chunks"
          /\ start' = end + 1
    /\ UNCHANGED <<rf, rt, chunk_days, primary, secondary, result, resultCols, notResolver>>

\* the loop has ended: the resolver returns the secondary's table
Finish ==
    /\ rpc = "chunks"
    /\ start > rt
    /\ result' = Some(NselibOut(all_chunks))
    /\ resultCols' = CanonicalColumns
    /\ rpc' = "returned"
    /\ UNCHANGED <<rf, rt, chunk_days, primary, secondary, start, all_chunks,
                   chunkCalls, chunkOut, notResolver>>

NextResolver == ResolveCall \/ Primary \/ Chunk \/ Finish

SpecResolver == InitResolver /\ [][NextResolver]_vars

\* ---------------------------------------------------- download_index_data
\* the raw tables index_data may return: rows in any order, dates as text
IndexRows == {r \in RawRows : r.val = "y"}
IndexTables == UNION { [1..n -> IndexRows] : n \in 0..MaxRaw }

\* what one call of index_data does: returns a table (with or without the
\* TIMESTAMP and CLOSE_INDEX_VAL columns), returns None, times out or raises
IndexOutcomes(T) ==
    {[kind |-> "returned", cols |-> c, rows |-> r] : c \in BOOLEAN, r \in T}
        \cup {[kind |-> k, cols |-> FALSE, rows |-> <<>>] : k \in {"none", "timeout", "error"}}

notIndex == <<stockVars, resolver, batch, conc, rest>>

InitIndex ==
    /\ StockIdle
    /\ ResolverIdle
    /\ ifile \in {Absent} \cup {Csv(t) : t \in StaleTables}
    /\ IndexLocalsIdle
    /\ BatchIdle
    /\ ConcIdle
    /\ RestIdle

IndexBegin(f, t) ==
    /\ ipc' = "fetch"
    /\ ifrom' = f /\ ito' = t
    /\ icalls' = <<>>
    /\ iresp' = "-"
    /\ idf' = None
    /\ ierr' = "-"
    /\ iwrote' = 0

\* download_index_data(symbol, from_date, to_date, filename) is entered
IndexCall ==
    /\ ipc = "idle"
    /\ \E f \in Dates, t \in Dates : IndexBegin(f, t)
    /\ ifile0' = ifile
    /\ UNCHANGED <<ifile, notIndex>>

\* a faulty variant: an empty table is saved like any other
IsEmptyNever(rows) == FALSE

\* df.empty
IsEmpty(rows) == rows = <<>>

\* except Exception as e: log; raise
IndexRaise(e) ==
    /\ ipc' = "raised"
    /\ ierr' = e

\* index_data under the timeout, and the empty check
IndexFetchFrom(T) ==
    /\ ipc = "fetch"
    /\ icalls' = Append(icalls, <<ifrom, ito>>)
    /\ \E o \in IndexOutcomes(T) :
          /\ iresp' = IF o.kind # "returned" THEN o.kind
                      ELSE IF o.rows = <<>> THEN "empty" ELSE "rows"
          /\ IF o.kind = "timeout" THEN IndexRaise("TimeoutError") /\ idf' = idf
             ELSE IF o.kind = "error" THEN IndexRaise("Exception") /\ idf' = idf
             ELSE IF o.kind = "none" THEN IndexRaise("AttributeError") /\ idf' = idf
             ELSE IF IsEmpty(o.rows) THEN IndexRaise("FileNotFoundError") /\ idf' = idf
             ELSE /\ idf' = Some([cols |-> o.cols, rows |-> o.rows])
                  /\ ipc' = "save"
                  /\ ierr' = ierr
    /\ UNCHANGED <<ifile, ifile0, ifrom, ito, iwrote, notIndex>>

IndexFetch == IndexFetchFrom(IndexTables)

\* rename, to_csv and the statistics: the table is stored as returned; the
\* statistics raise after the write when the Date or Close column is missing
\* (KeyError) or a date does not parse (ValueError)
IndexSave ==
    /\ ipc = "save"
    /\ \E w \in WriteOutcomes(diskFaulty, ifile, Get(idf).rows) :
          /\ ifile' = w.file
          /\ IF ~w.ok THEN IndexRaise("OSError") /\ iwrote' = iwrote
             ELSE /\ iwrote' = iwrote + 1
                  /\ IF ~Get(idf).cols THEN IndexRaise("KeyError")
                     ELSE IF HasBad(Get(idf).rows) THEN IndexRaise("ValueError")
                     ELSE ipc' = "done" /\ ierr' = ierr
    /\ UNCHANGED <<ifile0, ifrom, ito, icalls, iresp, idf, notIndex>>

\* the caller has the exception or None
IndexReturn ==
    /\ ipc \in {"done", "raised"}
    /\ ipc' = "idle"
    /\ ifrom' = 1 /\ ito' = 1
    /\ icalls' = <<>>
    /\ iresp' = "-"
    /\ idf' = None
    /\ ierr' = "-"
    /\ iwrote' = 0
    /\ ifile0' = ifile
    /\ UNCHANGED <<ifile, notIndex>>

NextIndex == IndexCall \/ IndexFetch \/ IndexSave \/ IndexReturn

SpecIndex == InitIndex /\ [][NextIndex]_vars

\* ------------------------------ download_all_stocks, download_all_indices
MaxSymbols == 2
SymbolLists == UNION { [1..n -> Symbols] : n \in 0..MaxSymbols }

\* a faulty variant: every symbol is cached under one file name
StockPathShared(symbol) == "A"

\* f"data/cache/price_history/{symbol}.csv"
StockPath(symbol) == symbol

\* f"data/cache/index_history/{index_name.replace(' ', '_')}.csv"
IndexPath(index_name) == IF index_name = "B C" THEN "B_C" ELSE index_name

\* the exception classes of the model that derive from Exception
ExceptionClasses == {"TypeError", "ValueError", "OSError", "KeyError", "FileNotFoundError",
                     "TimeoutError", "AttributeError", "Exception"}

\* a faulty variant: only the expected failures are caught
CaughtKnownOnly(drv, e) == e \in {"FileNotFoundError", "KeyError"}

\* except Exception (stocks); except (FileNotFoundError, KeyError) and then
\* except Exception (indices)
Caught(drv, e) ==
    IF drv = "indices" THEN e \in {"FileNotFoundError", "KeyError"} \/ e \in ExceptionClasses
    ELSE e \in ExceptionClasses

BatchFiles == {Absent, Csv(<<[date |-> 2, val |-> "x"]>>)}

InitBatch ==
    /\ file = Absent
    /\ fileWritten = FALSE
    /\ db = NoDate
    /\ today = NumDates
    /\ run = 0
    /\ start1 = Absent
    /\ upstreamFixed = FALSE
    /\ upstream = NoUpstream
    /\ dbStatus = "ok"
    /\ diskFaulty = TRUE
    /\ rawUpstream = FALSE
    /\ dbLog = <<>>
    /\ InitLocals
    /\ ResolverIdle
    /\ IndexIdle
    /\ ConcIdle
    /\ RestIdle
    /\ bpc = "idle"
    /\ driver = "stocks"
    /\ symbols = <<>>
    /\ bi = 0
    /\ successful_downloads = 0
    /\ failed_downloads = <<>>
    /\ attempted = <<>>
    /\ errs = <<>>
    /\ marks = <<>>
    /\ \E f \in BatchFiles : files = [n \in FileNames |-> f]
    /\ \E d \in {NoDate, 3} : dbs = [n \in Symbols |-> d]
    /\ start_date = 1 /\ end_date = 1
    /\ berr = "-"

\* download_all_stocks(symbols, start_date, end_date) or
\* download_all_indices(indices, start_date, end_date) is entered
BatchCall ==
    /\ bpc = "idle"
    /\ bpc' = "loop"
    /\ driver' \in {"stocks", "indices"}
    /\ symbols' \in SymbolLists
    /\ start_date' \in {1, 2}
    /\ end_date' \in {3, NumDates}
    /\ UNCHANGED <<bi, successful_downloads, failed_downloads, attempted, errs, marks,
                   files, dbs, berr>>
    /\ UNCHANGED <<stockVars, resolver, index, conc, rest>>

\* the loop body up to the call: client.download_stock_data(symbol, ...)
BatchStock ==
    /\ bpc = "loop" /\ driver = "stocks" /\ bi < Len(symbols)
    /\ bi' = bi + 1
    /\ attempted' = Append(attempted, symbols[bi + 1])
    /\ bpc' = "call"
    /\ file' = files[StockPath(symbols[bi + 1])]
    /\ file0' = file'
    /\ fileWritten' = FALSE
    /\ db' = dbs[symbols[bi + 1]]
    /\ Begin(start_date, end_date)
    /\ UNCHANGED <<driver, symbols, successful_downloads, failed_downloads, errs, marks,
                   files, dbs, start_date, end_date, berr>>
    /\ UNCHANGED <<today, upstreamFixed, upstream, run, start1, faults, resolver, index, conc,
                   rest>>

\* what the driver does with the outcome e of a download ("-": it returned)
Record(e) ==
    /\ errs' = Append(errs, e)
    /\ IF e = "-"
       THEN /\ successful_downloads' = successful_downloads + 1
            /\ marks' = Append(marks, "ok")
            /\ bpc' = "loop"
            /\ UNCHANGED <<failed_downloads, berr>>
       ELSE IF Caught(driver, e)
       THEN /\ failed_downloads' = Append(failed_downloads, symbols[bi])
            /\ marks' = Append(marks, "failed")
            /\ bpc' = "loop"
            /\ UNCHANGED <<successful_downloads, berr>>
       ELSE /\ bpc' = "raised"
            /\ berr' = e
            /\ UNCHANGED <<successful_downloads, failed_downloads, marks>>

\* the call has returned or raised: successful_downloads += 1, or
\* failed_downloads.append(symbol)
BatchStockDone ==
    /\ bpc = "call" /\ driver = "stocks" /\ pc \in {"done", "raised"}
    /\ Record(IF pc = "done" THEN "-" ELSE err)
    /\ files' = [files EXCEPT ![StockPath(symbols[bi])] = file]
    /\ Leave
    /\ file0' = file
    /\ UNCHANGED <<driver, symbols, bi, attempted, dbs, start_date, end_date>>
    /\ UNCHANGED <<file, fileWritten, db, today, upstreamFixed, upstream, run, start1,
                   faults, resolver, index, conc, rest>>

\* the loop body up to the call: client.download_index_data(index_name, ...)
BatchIndex ==
    /\ bpc = "loop" /\ driver = "indices" /\ bi < Len(symbols)
    /\ bi' = bi + 1
    /\ attempted' = Append(attempted, symbols[bi + 1])
    /\ bpc' = "call"
    /\ ifile' = files[IndexPath(symbols[bi + 1])]
    /\ ifile0' = ifile'
    /\ IndexBegin(start_date, end_date)
    /\ UNCHANGED <<driver, symbols, successful_downloads, failed_downloads, errs, marks,
                   files, dbs, start_date, end_date, berr>>
    /\ UNCHANGED <<stockVars, resolver, conc, rest>>

BatchIndexDone ==
    /\ bpc = "call" /\ driver = "indices" /\ ipc \in {"done", "raised"}
    /\ Record(IF ipc = "done" THEN "-" ELSE ierr)
    /\ files' = [files EXCEPT ![IndexPath(symbols[bi])] = ifile]
    /\ ipc' = "idle"
    /\ ifrom' = 1 /\ ito' = 1
    /\ icalls' = <<>>
    /\ iresp' = "-"
    /\ idf' = None
    /\ ierr' = "-"
    /\ iwrote' = 0
    /\ ifile0' = ifile
    /\ UNCHANGED <<ifile, driver, symbols, bi, attempted, dbs, start_date, end_date>>
    /\ UNCHANGED <<stockVars, resolver, conc, rest>>

\* the summary after the loop: download_all_stocks divides by len(symbols)
\* unguarded, download_all_indices only if len(indices) > 0
BatchSummary ==
    /\ bpc = "loop" /\ bi = Len(symbols)
    /\ IF driver = "stocks" /\ Len(symbols) = 0
       THEN bpc' = "raised" /\ berr' = "ZeroDivisionError"
       ELSE bpc' = "done" /\ berr' = berr
    /\ UNCHANGED <<driver, symbols, bi, successful_downloads, failed_downloads, attempted,
                   errs, marks, files, dbs, start_date, end_date>>
    /\ UNCHANGED <<stockVars, resolver, index, conc, rest>>

\* the index tables of a driver's run: one row at most
BatchIndexFetch == IndexFetchFrom({t \in IndexTables : Len(t) <= MaxResp})

NextBatch ==
    \/ BatchCall
    \/ BatchStock \/ Run \/ BatchStockDone
    \/ BatchIndex \/ BatchIndexFetch \/ IndexSave \/ BatchIndexDone
    \/ BatchSummary

SpecBatch == InitBatch /\ [][NextBatch]_vars

\* ----------------------------------- two runs of download_stock_data at once
\* Two invocations run as two processes (or threads) over one cache
\* directory.  The scheduler may switch between them after any step: the
\* database lookup, the read of the file, a fetch, the merge with its write.
InitConc ==
    /\ file = Absent
    /\ fileWritten = FALSE
    /\ db \in {NoDate, 3}
    /\ today = NumDates
    /\ run = 0
    /\ start1 = Absent
    /\ upstreamFixed = FALSE
    /\ upstream = NoUpstream
    /\ NoFaults
    /\ InitLocals
    /\ ResolverIdle
    /\ IndexIdle
    /\ BatchIdle
    /\ RestIdle
    /\ cur = 0
    /\ csym = <<"A", "A">>
    /\ cpath = <<"A", "A">>
    /\ saved = FreshFrame(1, 1, Absent)
    /\ \E f \in BatchFiles : cfiles = [n \in FileNames |-> f]
    /\ cfiles0 = cfiles

\* both runs are started, each for its symbol, with the same range
ConcStart ==
    /\ cur = 0 /\ pc = "idle"
    /\ cur' = 1
    /\ \E s \in Symbols, f \in {1, 2} :
          /\ csym' = <<"A", s>>
          /\ cpath' = <<StockPath("A"), StockPath(s)>>
          /\ Begin(f, NumDates)
          /\ file' = cfiles[StockPath("A")]
          /\ file0' = cfiles[StockPath("A")]
          /\ saved' = FreshFrame(f, NumDates, cfiles[StockPath(s)])
    /\ UNCHANGED <<cfiles, cfiles0, fileWritten, db, today, upstreamFixed, upstream, run,
                   start1, faults, resolver, index, batch, rest>>

\* the scheduler suspends the running invocation and resumes the other one
Switch ==
    /\ cur \in {1, 2}
    /\ cur' = 3 - cur
    /\ saved' = Frame
    /\ cfiles' = [cfiles EXCEPT ![cpath[cur]] = file]
    /\ file' = cfiles'[cpath[3 - cur]]
    /\ pc' = saved.pc
    /\ from_date' = saved.from_date /\ to_date' = saved.to_date
    /\ db_max_date' = saved.db_max_date
    /\ existing_df' = saved.existing_df
    /\ new_data_list' = saved.new_data_list
    /\ calls' = saved.calls
    /\ failed' = saved.failed
    /\ badSeen' = saved.badSeen
    /\ err' = saved.err
    /\ returned' = saved.returned
    /\ wrote' = saved.wrote
    /\ file0' = saved.file0
    /\ UNCHANGED <<csym, cpath, cfiles0, fileWritten, db, today, upstreamFixed, upstream,
                   run, start1, faults, resolver, index, batch, rest>>

NextConc == ConcStart \/ Run \/ Switch

SpecConc == InitConc /\ [][NextConc]_vars

\* ------------------------------------------- the timeout of one fetch attempt
\* NSEClient._timeout is entered once per attempt: around the primary call
\* (line 289), around each chunk's call (line 106) and around the index call
\* (line 421).  SIGALRM is asynchronous: once armed, the alarm may expire
\* before any later step of the process, and the handler then raises
\* TimeoutError at the point the process has reached.
MaxTimerChunks == 2

OthersIdle == StockIdle /\ ResolverIdle /\ IndexIdle /\ BatchIdle /\ ConcIdle

notRest == <<stockVars, resolver, index, batch, conc>>

notTimer == <<notRest, norm, cell, loader>>

notNorm == <<notRest, timer, cell, loader>>

notCell == <<notRest, timer, norm, loader>>

notLoader == <<notRest, timer, norm, cell>>

Attempts == {"primary", "chunk", "index"}

InitTimer == OthersIdle /\ RestIdle

\* download_stock_data reaches fetch_with_primary_and_fallback, or
\* download_index_data reaches its try block; the sub-range has 1..MaxTimerChunks
\* chunks for the secondary source
TimerStart ==
    /\ tphase = "idle"
    /\ tphase' \in {"primary", "index"}
    /\ tpc' = "signal"
    /\ outcome' = "-"
    /\ chunksLeft' \in 1..MaxTimerChunks
    /\ UNCHANGED <<alarm, handler, oldHandler, hits, notTimer>>

\* old = signal.signal(signal.SIGALRM, _handle)
TimerSetHandler ==
    /\ tpc = "signal"
    /\ oldHandler' = handler
    /\ handler' = "_handle"
    /\ tpc' = "alarm"
    /\ UNCHANGED <<tphase, alarm, outcome, chunksLeft, hits, notTimer>>

\* signal.alarm(max(1, seconds))
TimerArm ==
    /\ tpc = "alarm"
    /\ alarm' = TRUE
    /\ tpc' = "body"
    /\ UNCHANGED <<tphase, handler, oldHandler, outcome, chunksLeft, hits, notTimer>>

\* how the provider's call can end by itself
BodyOutcomes(phase) ==
    IF phase = "primary" THEN {"ok", "nodata", "error"} ELSE {"ok", "error"}

\* try: yield -- the with-body, one provider call, returns or raises
TimerBody ==
    /\ tpc = "body"
    /\ outcome' \in BodyOutcomes(tphase)
    /\ tpc' = "cancel"
    /\ UNCHANGED <<tphase, alarm, handler, oldHandler, chunksLeft, hits, notTimer>>

\* where control goes when _handle raises TimeoutError at position p of
\* _timeout: from the with-body into the finally clause; from the finally
\* clause, before signal.alarm(0), out of _timeout
AfterExpiry(p) == IF p = "body" THEN "cancel" ELSE "left"

\* the alarm expires: _handle (or whatever handler is installed) runs
TimerExpire ==
    /\ alarm = TRUE
    /\ alarm' = FALSE
    /\ hits' = hits \cup {<<tphase, tpc>>}
    /\ IF tpc \in {"body", "cancel"}
       THEN /\ outcome' = "timeout"
            /\ tpc' = AfterExpiry(tpc)
            /\ UNCHANGED tphase
       ELSE /\ tphase' = "raised"
            /\ UNCHANGED <<tpc, outcome>>
    /\ UNCHANGED <<handler, oldHandler, chunksLeft, notTimer>>

\* finally: signal.alarm(0)
TimerCancel ==
    /\ tpc = "cancel"
    /\ alarm' = FALSE
    /\ tpc' = "restore"
    /\ UNCHANGED <<tphase, handler, oldHandler, outcome, chunksLeft, hits, notTimer>>

\* signal.signal(signal.SIGALRM, oldHandler)
TimerRestore ==
    /\ tpc = "restore"
    /\ handler' = oldHandler
    /\ tpc' = "left"
    /\ UNCHANGED <<tphase, alarm, oldHandler, outcome, chunksLeft, hits, notTimer>>

\* what the caller does after an attempt: the primary's table is normalized,
\* its "CH_" KeyError ends the resolver with an empty table, any other failure
\* goes to the chunks; a chunk's table is normalized, a failed chunk is
\* skipped; the index table is saved, an index failure is re-raised
AfterAttempt(phase, how, left) ==
    CASE phase = "primary" /\ how = "ok" -> "normalize"
      [] phase = "primary" /\ how = "nodata" -> "merge"
      [] phase = "primary" -> "chunk"
      [] phase = "chunk" /\ how = "ok" -> "chunk_normalize"
      [] phase = "chunk" -> IF left > 1 THEN "chunk" ELSE "concat"
      [] phase = "index" /\ how = "ok" -> "index_save"
      [] OTHER -> "raised"

\* control leaves the with statement
TimerLeave ==
    /\ tpc = "left"
    /\ tphase' = AfterAttempt(tphase, outcome, chunksLeft)
    /\ tpc' = IF tphase' = "chunk" THEN "signal" ELSE "-"
    /\ chunksLeft' = IF tphase = "chunk" /\ outcome # "ok"
                     THEN chunksLeft - 1 ELSE chunksLeft
    /\ UNCHANGED <<alarm, handler, oldHandler, outcome, hits, notTimer>>

\* the work between and after the attempts
AfterWork(phase, left) ==
    CASE phase = "normalize" -> "merge"
      [] phase = "chunk_normalize" -> IF left > 1 THEN "chunk" ELSE "concat"
      [] phase = "concat" -> "merge"
      [] phase = "merge" -> "write"
      [] phase = "write" -> "done"
      [] phase = "index_save" -> "done"
      [] OTHER -> phase

TimerWork ==
    /\ tpc = "-"
    /\ tphase \in {"normalize", "chunk_normalize", "concat", "merge", "write",
                   "index_save"}
    /\ tphase' = AfterWork(tphase, chunksLeft)
    /\ tpc' = IF tphase' = "chunk" THEN "signal" ELSE "-"
    /\ chunksLeft' = IF tphase = "chunk_normalize" THEN chunksLeft - 1 ELSE chunksLeft
    /\ UNCHANGED <<alarm, handler, oldHandler, outcome, hits, notTimer>>

\* the operation returns or raises; the process goes on to the next one
TimerReturn ==
    /\ tphase \in {"done", "raised"}
    /\ tpc = "-"
    /\ tphase' = "idle"
    /\ outcome' = "-"
    /\ chunksLeft' = 0
    /\ UNCHANGED <<tpc, alarm, handler, oldHandler, hits, notTimer>>

NextTimer ==
    \/ TimerStart \/ TimerSetHandler \/ TimerArm \/ TimerBody \/ TimerExpire
    \/ TimerCancel \/ TimerRestore \/ TimerLeave \/ TimerWork \/ TimerReturn

SpecTimeout == InitTimer /\ [][NextTimer]_vars

\* ------------------------------------------------------ the column normalizers
\* A column name is the sequence of its characters ("RUPEE" stands for the
\* rupee sign), so that the matching of names is computed, not assumed.
MaxCols == 3

UpperCase ==
    <<"A", "B", "C", "D", "E", "F", "G", "H", "I", "J", "K", "L", "M",
      "N", "O", "P", "Q", "R", "S", "T", "U", "V", "W", "X", "Y", "Z">>
LowerCase ==
    <<"a", "b", "c", "d", "e", "f", "g", "h", "i", "j", "k", "l", "m",
      "n", "o", "p", "q", "r", "s", "t", "u", "v", "w", "x", "y", "z">>
Digits == {"0", "1", "2", "3", "4", "5", "6", "7", "8", "9"}

LowerOf ==
    [c \in {UpperCase[i] : i \in DOMAIN UpperCase} |->
        LowerCase[CHOOSE i \in DOMAIN UpperCase : UpperCase[i] = c]]

Alnum == DOMAIN LowerOf \cup {LowerCase[i] : i \in DOMAIN LowerCase} \cup Digits

\* str.lower() on one character
Lower(ch) == IF ch \in DOMAIN LowerOf THEN LowerOf[ch] ELSE ch

\* str.isalnum() on one character
IsAlnum(ch) == ch \in Alnum

\* a faulty variant: the case of the letters is kept
NormalizeColnameKeepCase(name) == SelectSeq(name, IsAlnum)

\* _normalize_colname: ''.join(ch for ch in name.lower() if ch.isalnum())
NormalizeColname(name) == SelectSeq([i \in DOMAIN name |-> Lower(name[i])], IsAlnum)

\* the canonical columns in the preferred order
Preferred ==
    <<<<"D", "A", "T", "E">>,
      <<"O", "P", "E", "N">>,
      <<"H", "I", "G", "H">>,
      <<"L", "O", "W">>,
      <<"P", "R", "E", "V", "C", "L", "O", "S", "E">>,
      <<"L", "T", "P">>,
      <<"C", "L", "O", "S", "E">>,
      <<"V", "W", "A", "P">>,
      <<"V", "O", "L", "U", "M", "E">>,
      <<"V", "A", "L", "U", "E">>,
      <<"N", "O", "O", "F", "T", "R", "A", "D", "E", "S">>,
      <<"S", "Y", "M", "B", "O", "L">>,
      <<"S", "E", "R", "I", "E", "S">>>>

\* the ordered alias lists of lines 116-130, one per column of Preferred
\* (SYMBOL is not resolved: it is set from the argument)
Aliases ==
    <<<<<<"D", "a", "t", "e">>,
        <<"D", "A", "T", "E">>,
        <<"T", "i", "m", "e", "s", "t", "a", "m", "p">>,
        <<"T", "I", "M", "E", "S", "T", "A", "M", "P">>>>,
      <<<<"O", "p", "e", "n", "P", "r", "i", "c", "e">>,
        <<"O", "p", "e", "n", " ", "P", "r", "i", "c", "e">>,
        <<"O", "P", "E", "N">>,
        <<"O", "p", "e", "n">>>>,
      <<<<"H", "i", "g", "h", "P", "r", "i", "c", "e">>,
        <<"H", "i", "g", "h", " ", "P", "r", "i", "c", "e">>,
        <<"H", "I", "G", "H">>,
        <<"H", "i", "g", "h">>>>,
      <<<<"L", "o", "w", "P", "r", "i", "c", "e">>,
        <<"L", "o", "w", " ", "P", "r", "i", "c", "e">>,
        <<"L", "O", "W">>,
        <<"L", "o", "w">>>>,
      <<<<"P", "r", "e", "v", "C", "l", "o", "s", "e">>,
        <<"P", "r", "e", "v", "i", "o", "u", "s", " ", "C", "l", "o", "s", "e">>,
        <<"P", "R", "E", "V", "_", "C", "L", "O", "S", "E">>>>,
      <<<<"L", "a", "s", "t", "P", "r", "i", "c", "e">>,
        <<"L", "T", "P">>,
        <<"L", "A", "S", "T", "_", "P", "R", "I", "C", "E">>>>,
      <<<<"C", "l", "o", "s", "e", "P", "r", "i", "c", "e">>,
        <<"C", "l", "o", "s", "e", " ", "P", "r", "i", "c", "e">>,
        <<"C", "L", "O", "S", "E">>,
        <<"C", "l", "o", "s", "e">>>>,
      <<<<"A", "v", "e", "r", "a", "g", "e", "P", "r", "i", "c", "e">>,
        <<"V", "W", "A", "P">>,
        <<"A", "v", "g", " ", "P", "r", "i", "c", "e">>>>,
      <<<<"T", "o", "t", "a", "l", "T", "r", "a", "d", "e", "d", "Q", "u", "a", "n", "t", "i", "t", "y">>,
        <<"T", "o", "t", "a", "l", " ", "T", "r", "a", "d", "e", "d", " ", "Q", "u", "a", "n", "t", "i", "t", "y">>,
        <<"T", "O", "T", "A", "L", "_", "T", "R", "D", "_", "Q", "T", "Y">>,
        <<"V", "O", "L", "U", "M", "E">>,
        <<"V", "o", "l", "u", "m", "e">>>>,
      <<<<"T", "u", "r", "n", "o", "v", "e", "r", "RUPEE">>,
        <<"T", "u", "r", "n", "o", "v", "e", "r", " ", "(", "RUPEE", " ", "C", "r", ")">>,
        <<"T", "u", "r", "n", "o", "v", "e", "r">>,
        <<"V", "A", "L", "U", "E">>>>,
      <<<<"N", "o", ".", "o", "f", "T", "r", "a", "d", "e", "s">>,
        <<"N", "o", ".", " ", "o", "f", " ", "T", "r", "a", "d", "e", "s">>,
        <<"T", "R", "A", "D", "E", "S">>>>,
      <<>>,
      <<<<"S", "e", "r", "i", "e", "s">>,
        <<"S", "E", "R", "I", "E", "S">>>>>>

\* 'PREV. CLOSE'
PrevDotClose == <<"P", "R", "E", "V", ".", " ", "C", "L", "O", "S", "E">>

\* 'NO OF TRADES'
NoOfTradesSpaced == <<"N", "O", " ", "O", "F", " ", "T", "R", "A", "D", "E", "S">>

\* '52W H'
High52W == <<"5", "2", "W", " ", "H">>

\* '52W L'
Low52W == <<"5", "2", "W", " ", "L">>

\* the column names a raw table of price_volume_data is drawn from: known
\* variants, variants in another spelling, and names of no canonical field
NselibNames ==
    {<<"D", "a", "t", "e">>,
     <<"T", "I", "M", "E", "S", "T", "A", "M", "P">>,
     <<"O", "p", "e", "n">>,
     <<"O", "P", "E", "N", " ", "P", "R", "I", "C", "E">>,
     <<"o", "p", "e", "n", "_", "p", "r", "i", "c", "e">>,
     <<"O", "p", "e", "n", "i", "n", "g">>,
     <<"T", "u", "r", "n", "o", "v", "e", "r", " ", "(", "RUPEE", " ", "C", "r", ")">>,
     <<"S", "e", "r", "i", "e", "s">>,
     <<"D", "e", "l", "i", "v", "e", "r", "a", "b", "l", "e", " ", "Q", "t", "y">>}

\* the column names a raw table of stock_df is drawn from
JugaadNames ==
    {<<"D", "A", "T", "E">>,
     <<"P", "R", "E", "V", ".", " ", "C", "L", "O", "S", "E">>,
     <<"N", "O", " ", "O", "F", " ", "T", "R", "A", "D", "E", "S">>,
     <<"5", "2", "W", " ", "H">>,
     <<"5", "2", "W", " ", "L">>,
     <<"S", "Y", "M", "B", "O", "L">>,
     <<"S", "E", "R", "I", "E", "S">>,
     <<"D", "E", "L", "I", "V", "E", "R", "Y">>}

DefaultSeries == "EQ"

Range(s) == {s[i] : i \in DOMAIN s}

\* the column lists of a raw table: distinct names, in any order
ColumnLists(names) ==
    {cols \in UNION {[1..n -> names] : n \in 0..MaxCols} :
        \A i, j \in DOMAIN cols : cols[i] = cols[j] => i = j}

\* df.empty: no row or no column
RawEmpty(cols, rows) == cols = <<>> \/ rows = <<>>

\* where an output column comes from: a raw column, nothing (all null), or a
\* value set by the normalizer
Null == [src |-> "null"]
FromRaw(c) == [src |-> "raw", col |-> c]
Filled(v) == [src |-> "fill", val |-> v]

\* series or self.default_series
SeriesOr(series) == IF IsNone(series) THEN DefaultSeries ELSE Get(series)

\* _resolve_first(df, candidates): normalized_cols is a dict keyed by the
\* normalized name, so of the raw columns with one key the last one stays;
\* the candidates are tried in order
ResolveFirst(cols, candidates) ==
    LET key(i) == NormalizeColname(candidates[i])
        hit == {i \in DOMAIN candidates :
                  \E j \in DOMAIN cols : NormalizeColname(cols[j]) = key(i)}
    IN IF hit = {} THEN None
       ELSE Some(cols[SetMax({j \in DOMAIN cols :
                                NormalizeColname(cols[j]) = key(SetMin(hit))})])

SymbolAt == CHOOSE i \in DOMAIN Preferred : Preferred[i] = <<"S", "Y", "M", "B", "O", "L">>
SeriesAt == CHOOSE i \in DOMAIN Preferred : Preferred[i] = <<"S", "E", "R", "I", "E", "S">>
DateAt == CHOOSE i \in DOMAIN Preferred : Preferred[i] = <<"D", "A", "T", "E">>

\* the columns of the frame built on lines 133-147: the canonical ones only
NselibColumns(cols) == Preferred

\* the source of each column of that frame
NselibFrom(cols, series) ==
    [i \in DOMAIN Preferred |->
        LET s == ResolveFirst(cols, Aliases[i])
        IN IF i = SymbolAt THEN Filled("symbol")
           ELSE IF ~IsNone(s) THEN FromRaw(Get(s))
           ELSE IF i = SeriesAt THEN Filled(SeriesOr(series))
           ELSE Null]

\* a faulty variant: no column is renamed
RenameNothing(c) == c

\* out.rename(columns=rename_map)
Rename(c) ==
    IF c = PrevDotClose THEN <<"P", "R", "E", "V", "C", "L", "O", "S", "E">>
    ELSE IF c = NoOfTradesSpaced THEN <<"N", "O", "O", "F", "T", "R", "A", "D", "E", "S">>
    ELSE c

\* the columns after the renames, the drop of the 52-week columns and the
\* appending of SYMBOL and SERIES where missing (lines 185-206)
JugaadEnsured(cols) ==
    LET renamed == [i \in DOMAIN cols |-> Rename(cols[i])]
        kept == SelectSeq(renamed, LAMBDA c : c \notin {High52W, Low52W})
        withSymbol == IF Preferred[SymbolAt] \in Range(kept) THEN kept
                      ELSE Append(kept, Preferred[SymbolAt])
    IN IF Preferred[SeriesAt] \in Range(withSymbol) THEN withSymbol
       ELSE Append(withSymbol, Preferred[SeriesAt])

\* ordered + remaining (lines 209-212)
JugaadColumns(cols) ==
    LET have == JugaadEnsured(cols)
        ordered == SelectSeq(Preferred, LAMBDA c : c \in Range(have))
    IN ordered \o SelectSeq(have, LAMBDA c : c \notin Range(ordered))

\* the source of each column of the primary normalizer's table
JugaadFrom(cols, series) ==
    LET outc == JugaadColumns(cols)
    IN [i \in DOMAIN outc |->
          IF \E j \in DOMAIN cols : Rename(cols[j]) = outc[i]
          THEN FromRaw(cols[SetMax({j \in DOMAIN cols : Rename(cols[j]) = outc[i]})])
          ELSE IF outc[i] = Preferred[SymbolAt] THEN Filled("symbol")
          ELSE Filled(SeriesOr(series))]

InitNorm == OthersIdle /\ RestIdle

\* a provider hands over a raw table
NormCall ==
    /\ npc = "idle"
    /\ npc' = "called"
    /\ \E w \in {"nselib", "jugaad"} :
          /\ normalizer' = w
          /\ rawCols' \in ColumnLists(IF w = "nselib" THEN NselibNames ELSE JugaadNames)
          /\ rawRows' \in IF w = "nselib" THEN ChunkTables ELSE RawTables
    /\ seriesArg' \in {None, Some("BE")}
    /\ nout' = "-"
    /\ UNCHANGED <<outCols, outFrom, outRows, notNorm>>

\* the body of the loop of _fetch_equity_history_nselib for one chunk's table
NormalizeNselib ==
    /\ npc = "called" /\ normalizer = "nselib"
    /\ npc' = "done"
    /\ IF RawEmpty(rawCols, rawRows) \/ IsNone(ResolveFirst(rawCols, Aliases[DateAt]))
       THEN /\ nout' = "skipped"
            /\ UNCHANGED <<outCols, outFrom, outRows>>
       ELSE /\ nout' = "df"
            /\ outCols' = NselibColumns(rawCols)
            /\ outFrom' = NselibFrom(rawCols, seriesArg)
            /\ outRows' = NormalizeChunk(rawRows)
    /\ UNCHANGED <<normalizer, rawCols, rawRows, seriesArg, notNorm>>

\* _normalize_jugaad_stock_df
NormalizeJugaadDf ==
    /\ npc = "called" /\ normalizer = "jugaad"
    /\ npc' = "done"
    /\ IF RawEmpty(rawCols, rawRows)
       THEN /\ nout' = "df"
            /\ outCols' = Preferred
            /\ outFrom' = [i \in DOMAIN Preferred |-> Null]
            /\ outRows' = EmptyDf
       ELSE IF Preferred[DateAt] \notin Range(JugaadColumns(rawCols))
       THEN /\ nout' = "KeyError"
            /\ UNCHANGED <<outCols, outFrom, outRows>>
       ELSE /\ nout' = "df"
            /\ outCols' = JugaadColumns(rawCols)
            /\ outFrom' = JugaadFrom(rawCols, seriesArg)
            /\ outRows' = NormalizeJugaad(rawRows)
    /\ UNCHANGED <<normalizer, rawCols, rawRows, seriesArg, notNorm>>

\* the table is handed back; nothing of the call is kept
NormReturn ==
    /\ npc = "done"
    /\ npc' = "idle"
    /\ normalizer' = "nselib"
    /\ rawCols' = <<>> /\ rawRows' = <<>>
    /\ seriesArg' = None
    /\ nout' = "-"
    /\ outCols' = <<>> /\ outFrom' = <<>> /\ outRows' = <<>>
    /\ UNCHANGED notNorm

NextNorm == NormCall \/ NormalizeNselib \/ NormalizeJugaadDf \/ NormReturn

SpecNormalize == InitNorm /\ [][NextNorm]_vars

\* ---------------------------------------------------------- numeric cleaning
\* The cells of a resolved numeric column are cleaned and parsed one by one
\* (lines 91-96 and 135-144).  A cell is the sequence of its characters.
MaxCellLen == 4

\* the characters the cells are made of: digits, separators, signs, blank,
\* the rupee sign, a letter
CellChars == {"0", "1", ",", ".", "-", "+", " ", "RUPEE", "e"}

\* "1,234.50"
Cell1234 == <<"1", ",", "2", "3", "4", ".", "5", "0">>

\* str(float('nan')) and str(None): what astype(str) makes of a missing cell
CellNan == <<"n", "a", "n">>
CellNone == <<"N", "o", "n", "e">>

Cells ==
    UNION {[1..n -> CellChars] : n \in 0..MaxCellLen} \cup {Cell1234, CellNan, CellNone}

NaN == [kind |-> "nan"]

DigitSeq == <<"0", "1", "2", "3", "4", "5", "6", "7", "8", "9">>
DigitVal(ch) == (CHOOSE i \in DOMAIN DigitSeq : DigitSeq[i] = ch) - 1

\* the value of a sequence of digits
RECURSIVE IntOf(_)
IntOf(ds) ==
    IF ds = <<>> THEN 0
    ELSE 10 * IntOf(SubSeq(ds, 1, Len(ds) - 1)) + DigitVal(ds[Len(ds)])

\* a fraction's digits without its trailing zeros
RECURSIVE TrimZeros(_)
TrimZeros(ds) ==
    IF ds # <<>> /\ ds[Len(ds)] = "0" THEN TrimZeros(SubSeq(ds, 1, Len(ds) - 1)) ELSE ds

\* the float with sign, integer digits a and fraction digits b
Num(neg, a, b) ==
    [kind |-> "num",
     neg |-> neg /\ (IntOf(a) # 0 \/ TrimZeros(b) # <<>>),
     units |-> IntOf(a),
     frac |-> TrimZeros(b)]

\* a faulty variant: the text is parsed as it is
CleanNumericNothing(s) == s

\* _clean_numeric: s.astype(str).str.replace(r"[^0-9+\-\.]+", "", regex=True)
CleanNumeric(s) == SelectSeq(s, LAMBDA ch : ch \in Digits \cup {"+", "-", "."})

\* a faulty variant: errors='raise'
OnParseFailureRaise == [kind |-> "error"]

\* pd.to_numeric(..., errors='coerce'): a text that is no number becomes NaN
OnParseFailure == NaN

\* pd.to_numeric on one text over digits, signs and points: an optional sign,
\* then digits with at most one point among them, one digit at least
ToNumeric(s) ==
    LET signed == s # <<>> /\ Head(s) \in {"+", "-"}
        body == IF signed THEN Tail(s) ELSE s
        points == {i \in DOMAIN body : body[i] = "."}
        digitsOnly(x) == \A i \in DOMAIN x : x[i] \in Digits
        at == IF points = {} THEN Len(body) + 1 ELSE SetMin(points)
        a == SubSeq(body, 1, at - 1)
        b == SubSeq(body, at + 1, Len(body))
    IN IF digitsOnly(a) /\ digitsOnly(b) /\ Len(a) + Len(b) > 0
       THEN Num(signed /\ Head(s) = "-", a, b)
       ELSE OnParseFailure

InitCell == OthersIdle /\ RestIdle

\* a cell of a resolved numeric column
CellCall ==
    /\ cellpc = "idle"
    /\ cellpc' = "called"
    /\ rawCell' \in Cells
    /\ UNCHANGED <<cleaned, parsed, notCell>>

\* pd.to_numeric(_clean_numeric(open_s), errors='coerce')
CellClean ==
    /\ cellpc = "called"
    /\ cellpc' = "done"
    /\ cleaned' = CleanNumeric(rawCell)
    /\ parsed' = ToNumeric(cleaned')
    /\ UNCHANGED <<rawCell, notCell>>

CellReturn ==
    /\ cellpc = "done"
    /\ cellpc' = "idle"
    /\ rawCell' = <<>> /\ cleaned' = <<>> /\ parsed' = [kind |-> "-"]
    /\ UNCHANGED notCell

NextCell == CellCall \/ CellClean \/ CellReturn

SpecNumeric == InitCell /\ [][NextCell]_vars

\* ------------------------------------------------------ the database loader
\* load_stock_data / load_index_data read every CSV file of a folder and
\* insert its new rows.  The file of a name s is cached under StockPath(s) or
\* IndexPath(s); the symbol column of its rows holds s.
MaxCsvRows == 2
MaxLoads == 2

\* the files a first load may find: one row at most per file
FirstCsvs == [Symbols -> {t \in SeedTables : Len(t) <= 1}]

\* filename.replace('.csv', '')
Stem(kind, s) == IF kind = "stocks" THEN StockPath(s) ELSE IndexPath(s)

\* get_latest_date: SELECT MAX(date) FROM table WHERE symbol = ?
LatestDate(tbl, symbol) ==
    LET ds == {r.date : r \in {x \in tbl : x.symbol = symbol}}
    IN IF ds = {} THEN NoDate ELSE SetMax(ds)

\* df.drop_duplicates(inplace=True): of identical rows the first is kept
DropIdentical(df) ==
    Take(df, {i \in DOMAIN df : \A j \in DOMAIN df : j < i => df[j] # df[i]})

\* a faulty variant: every row is kept whatever the database holds
NewRowsAll(df, latest) == df

\* if latest_date: df = df[df['DATE'] > pd.to_datetime(latest_date)]
NewRows(df, latest) ==
    IF latest = NoDate THEN df ELSE Take(df, {i \in DOMAIN df : df[i].date > latest})

\* the rows the INSERT ... SELECT hands to the table for the file of name s
Selected(df, s) == {[date |-> df[i].date, symbol |-> s, val |-> df[i].val] : i \in DOMAIN df}

\* the primary key (date, symbol) rejects the statement: a row of df has the
\* key of a stored row or of another row of df
KeyViolation(tbl, df, s) ==
    \/ \E i \in DOMAIN df : \E r \in tbl : r.date = df[i].date /\ r.symbol = s
    \/ \E i, j \in DOMAIN df : i # j /\ df[i].date = df[j].date

InitLoader ==
    /\ OthersIdle /\ TimerIdle /\ NormIdle /\ CellIdle
    /\ lpc = "idle"
    /\ lkind \in {"stocks", "indices"}
    /\ csvs \in FirstCsvs
    /\ prices = {}
    /\ prices0 = {}
    /\ csvsLoaded = csvs
    /\ lpending = {}
    /\ loads = 0
    /\ lerr = "-"

\* load_stock_data(con) / load_index_data(con) is called
LoadStart ==
    /\ lpc = "idle" /\ loads < MaxLoads
    /\ lpc' = "loading"
    /\ lpending' = Symbols
    /\ prices0' = prices
    /\ lerr' = "-"
    /\ UNCHANGED <<lkind, csvs, prices, csvsLoaded, loads, notLoader>>

\* one turn of the loop over os.listdir(folder_path), in any order
LoadFile ==
    /\ lpc = "loading"
    /\ \E s \in lpending :
          LET latest == LatestDate(prices, Stem(lkind, s))
              df == NewRows(DropIdentical(csvs[s]), latest)
          IN /\ lpending' = lpending \ {s}
             /\ IF df = <<>>
                THEN UNCHANGED <<lpc, prices, lerr>>
                ELSE IF KeyViolation(prices, df, s)
                THEN /\ lpc' = "raised"
                     /\ lerr' = "ConstraintException"
                     /\ UNCHANGED prices
                ELSE /\ prices' = prices \cup Selected(df, s)
                     /\ UNCHANGED <<lpc, lerr>>
    /\ UNCHANGED <<lkind, csvs, prices0, csvsLoaded, loads, notLoader>>

\* the loop ends
LoadEnd ==
    /\ lpc = "loading" /\ lpending = {}
    /\ lpc' = "done"
    /\ UNCHANGED <<lkind, csvs, prices, prices0, csvsLoaded, lpending, loads, lerr, notLoader>>

LoadReturn ==
    /\ lpc \in {"done", "raised"}
    /\ lpc' = "idle"
    /\ loads' = loads + 1
    /\ csvsLoaded' = csvs
    /\ lpending' = {}
    /\ UNCHANGED <<lkind, csvs, prices, prices0, lerr, notLoader>>

\* between two loads a download adds a row to a CSV file
CsvAppend ==
    /\ lpc = "idle" /\ loads < MaxLoads
    /\ \E s \in Symbols, r \in Rows :
          /\ Len(csvs[s]) < MaxCsvRows
          /\ csvs' = [csvs EXCEPT ![s] = Append(@, r)]
    /\ UNCHANGED <<lpc, lkind, prices, prices0, csvsLoaded, lpending, loads, lerr, notLoader>>

NextLoader == LoadStart \/ LoadFile \/ LoadEnd \/ LoadReturn \/ CsvAppend

SpecLoader == InitLoader /\ [][NextLoader]_vars

\* ------------------------------------------------------------ properties
Unique(df) == \A i, j \in DOMAIN df : df[i].date = df[j].date => i = j
StrictlyDesc(df) == \A i \in 1..(Len(df) - 1) : df[i].date > df[i + 1].date
RowSet(df) == {df[i] : i \in DOMAIN df}
RowsAt(df, d) == {r \in RowSet(df) : r.date = d}

\* the invocation has left the planning and fetching behind
Fetched == pc \in {"merge", "done", "raised"}
Finished == pc \in {"done", "raised"}

\* the file the invocation found, as the claims speak of it
HadRows == file0.st = "ok" /\ file0.rows # <<>>
FileMin == SetMin(DateSet(file0.rows))
FileMax == SetMax(DateSet(file0.rows))
SkipApplies == db = today \/ (HadRows /\ FileMax = today)

\* C1: a file written by download_stock_data holds at most one row per date.
C1_OneRowPerDate == fileWritten => Unique(file.rows)

C1_Witness ==
    /\ pc = "done" /\ wrote = 1
    /\ ~Unique(Concat(AllData(existing_df, new_data_list)))
    /\ Len(file.rows) >= 2

\* the newest fetched row for date d: the one of the last fetch that has d
NewestFetched(d) ==
    LET k == SetMax({i \in DOMAIN new_data_list : d \in DateSet(new_data_list[i])})
    IN RowsAt(new_data_list[k], d)

FetchedDates == UNION {DateSet(new_data_list[i]) : i \in DOMAIN new_data_list}

\* C2: in a merge, for a date present both in the existing file and in a
\* fetched result, the persisted and the returned row is the fetched one, of
\* the last fetch that returned the date.
C2_NewWins ==
    (pc = "done" /\ wrote = 1 /\ ~IsNone(existing_df)) =>
        \A d \in DateSet(Get(existing_df)) \cap FetchedDates :
            /\ RowsAt(file.rows, d) = NewestFetched(d)
            /\ RowsAt(Get(returned), d) = NewestFetched(d)

C2_Witness ==
    /\ pc = "done" /\ wrote = 1 /\ ~IsNone(existing_df)
    /\ \E d \in DateSet(Get(existing_df)) \cap FetchedDates :
          /\ RowsAt(Get(existing_df), d) # NewestFetched(d)
          /\ RowsAt(file.rows, d) = NewestFetched(d)

\* C3: a file written by download_stock_data is sorted strictly descending
\* by date.
C3_SortedDescending == fileWritten => StrictlyDesc(file.rows)

C3_Witness ==
    /\ pc = "done" /\ wrote = 1
    /\ Len(file.rows) >= 3
    /\ ~StrictlyDesc(Concat(AllData(existing_df, new_data_list)))

\* C4: when the database max date or the file's max date is today, the
\* invocation fetches nothing, writes nothing and returns the file's table
\* as it was read (an empty table when there is no readable file).
C4_ShortCircuit ==
    (pc \notin {"idle", "db", "read", "check"} /\ SkipApplies) =>
        /\ pc = "done"
        /\ calls = <<>>
        /\ wrote = 0 /\ file = file0
        /\ returned = Some(IF file0.st = "ok" THEN file0.rows ELSE <<>>)

C4_Witness ==
    /\ pc = "done" /\ db = today /\ HadRows
    /\ from_date < FileMin /\ FileMax < to_date /\ FileMax # today

\* the effective max date as the code takes it: the database's when one was
\* read, the file's otherwise
CodeMax == IF db # NoDate THEN db ELSE FileMax

BackfillCall == IF from_date < FileMin THEN << <<from_date, FileMin - 1>> >> ELSE <<>>
ExtendCall == IF to_date > CodeMax THEN << <<CodeMax + 1, to_date>> >> ELSE <<>>

\* C5: with rows in the existing file and no short-circuit, the fetches are
\* the backfill [from, fileMin - 1] iff from < fileMin, then the extension
\* [effectiveMax + 1, to] iff to > effectiveMax, and no other.
C5_FetchPlan ==
    (Fetched /\ HadRows /\ ~SkipApplies) => calls = BackfillCall \o ExtendCall

C5_Witness ==
    /\ pc = "merge" /\ HadRows /\ ~SkipApplies
    /\ db # NoDate /\ db < FileMax
    /\ Len(calls) = 2

Straddles == HadRows /\ from_date < FileMin /\ FileMin < FileMax /\ FileMax < to_date

\* C6 as stated: a request straddling the file gives exactly the two fetches
\* [from, fileMin-1] and [fileMax+1, to], the second being [dbMax+1, to] only
\* if a database max date is present and greater than fileMax.  (Read in the
\* claim's favour: for invocations that do not short-circuit.)
C6_AsStated ==
    (Fetched /\ Straddles /\ ~SkipApplies) =>
        calls = << <<from_date, FileMin - 1>>,
                   <<(IF db # NoDate /\ db > FileMax THEN db ELSE FileMax) + 1, to_date>> >>

\* C6 amended: a request straddling the file, when the short-circuit does not
\* apply, gives the backfill [from, fileMin-1] and then [fileMax+1, to] if no
\* database max date was read; if one was read the second fetch is
\* [dbMax+1, to] whether dbMax is greater or smaller than fileMax, and there
\* is no second fetch when dbMax >= to.
C6_RangeCorrectness ==
    (Fetched /\ Straddles /\ ~SkipApplies) =>
        calls = << <<from_date, FileMin - 1>> >> \o
                (IF db = NoDate THEN << <<FileMax + 1, to_date>> >>
                 ELSE IF db < to_date THEN << <<db + 1, to_date>> >>
                 ELSE <<>>)

C6_Witness ==
    /\ pc = "merge" /\ Straddles /\ ~SkipApplies
    /\ db # NoDate /\ db < FileMax
    /\ calls = << <<from_date, FileMin - 1>>, <<db + 1, to_date>> >>

\* the rows the fetches of the invocation returned
FetchedRows == RowSet(Concat(new_data_list))

NoUsableFile == ~HadRows

OnlyTheFetch ==
    /\ calls = << <<db + 1, to_date>> >>
    /\ pc = "done" => RowSet(Get(returned)) = FetchedRows
    /\ file.st = "ok" => RowSet(file.rows) = FetchedRows

\* C7 as stated: no usable file and a database max date with dbMax + 1 <= to:
\* exactly the range [dbMax + 1, to] is fetched and the returned and persisted
\* data is what that fetch returned.
C7_AsStated ==
    (Finished /\ NoUsableFile /\ db # NoDate /\ db + 1 <= to_date) => OnlyTheFetch

\* C7 amended: the same, provided the database max date is not today (when
\* it is, the invocation short-circuits and fetches nothing).
C7_ContinueFromDb ==
    (Finished /\ NoUsableFile /\ db # NoDate /\ db + 1 <= to_date /\ db # today)
        => OnlyTheFetch

C7_Witness ==
    /\ pc = "done" /\ file0 = Absent /\ db # NoDate /\ db # today
    /\ from_date <= db /\ db + 1 < to_date
    /\ calls = << <<db + 1, to_date>> >>
    /\ returned # Some(<<>>) /\ file = Csv(Get(returned))

\* C8: no file, a database max date that is not today and dbMax + 1 > to:
\* the invocation fetches nothing and completes normally.  (Stated for
\* well-ordered requests, from <= to.)
C8_NothingToDo ==
    (Finished /\ file0 = Absent /\ db # NoDate /\ db # today /\ db + 1 > to_date
        /\ from_date <= to_date)
        => (calls = <<>> /\ pc = "done")

\* C9: existing file data and no new row from any fetch (none needed, all
\* failed, or all returned empty tables): the existing data is returned
\* unchanged and the file is not rewritten.  (Stated for a file with rows
\* and a well-ordered request.)
C9_NoRewrite ==
    (pc = "done" /\ HadRows /\ from_date <= to_date /\ FetchedRows = {}) =>
        (returned = Some(file0.rows) /\ wrote = 0 /\ file = file0)

\* the second of the two runs under SpecIdem has ended; file0 is then the
\* file as the first run left it
SecondDone == run = 2 /\ Finished

\* C10 as stated: the second run leaves the file as the first run left it
\* and performs no fetch.
C10_AsStated == SecondDone => (file = file0 /\ calls = <<>>)

\* the first run found rows in the file
StartedWithRows == start1.st = "ok" /\ start1.rows # <<>>

\* the second run has nothing to fetch: it short-circuits, or the file spans
\* the request, or the file has no rows and the database is already past `to`
NothingMissing ==
    \/ SkipApplies
    \/ HadRows /\ FileMin <= from_date /\ to_date <= CodeMax
    \/ ~HadRows /\ db # NoDate /\ db + 1 > to_date

\* C10 amended: with the same request, day and database and a fixed upstream,
\* the second run leaves the persisted rows as the first run left them
\* whenever the first run found rows in the file or no database max date was
\* read; and it performs no fetch exactly when it short-circuits, or the file
\* left by the first run has rows with fileMin <= from and to <= effectiveMax,
\* or that file has no rows and dbMax + 1 > to.  Otherwise it fetches the
\* uncovered ends again.
C10_Idempotence ==
    SecondDone =>
        /\ (StartedWithRows \/ db = NoDate) => file = file0
        /\ calls = <<>> <=> NothingMissing

C10_Witness ==
    /\ SecondDone /\ pc = "done"
    /\ file0.st = "ok" /\ Len(file0.rows) >= 2
    /\ Len(calls) = 2 /\ wrote = 1
    /\ file = file0

\* C13: with rows in the existing file, a failure of the backfill fetch does
\* not prevent the extend fetch, and a failure of either does not discard what
\* the other returned: both planned fetches are attempted whatever fails, the
\* invocation does not raise, and every fetched date is persisted and returned
\* with its fetched row.
C13_IndependentFetches ==
    (Fetched /\ HadRows /\ ~SkipApplies) =>
        /\ calls = BackfillCall \o ExtendCall
        /\ Len(new_data_list) = Len(calls) - Cardinality(failed)
        /\ pc # "raised"
        /\ (pc = "done" /\ new_data_list # <<>>) =>
              /\ wrote = 1
              /\ \A d \in FetchedDates :
                    /\ RowsAt(file.rows, d) = NewestFetched(d)
                    /\ RowsAt(Get(returned), d) = NewestFetched(d)

C13_Witness ==
    /\ pc = "done" /\ HadRows /\ ~SkipApplies
    /\ Len(calls) = 2 /\ failed = {1}
    /\ wrote = 1 /\ FetchedDates # {}
    /\ FetchedDates \subseteq DateSet(file.rows)

\* the lookup is not made, or fails
NoLookup == dbStatus # "ok"
LookupFails == dbStatus \in {"missing", "error"}

\* the fetches of a run that knows the file only
FileOnlyPlan ==
    IF HadRows
    THEN BackfillCall \o (IF to_date > FileMax THEN << <<FileMax + 1, to_date>> >> ELSE <<>>)
    ELSE << <<from_date, to_date>> >>

FileUpToDate == HadRows /\ FileMax = today

\* C14: a failure of the database max-date lookup never aborts
\* download_stock_data: the lookup yields no max date, and the short-circuit,
\* the fetch ranges and the merge are those of a run with no database
\* configured (the formula is the same for both).
C14_LookupFailureIsNoDb ==
    (NoLookup /\ pc \notin {"idle", "db"}) =>
        /\ db_max_date = NoDate
        /\ pc = "raised" => (~HadRows /\ calls = << <<from_date, to_date>> >> /\ failed = {1})
        /\ (pc \notin {"read", "check"} /\ FileUpToDate) =>
              (pc = "done" /\ calls = <<>> /\ wrote = 0)
        /\ (Fetched /\ ~FileUpToDate) => calls = FileOnlyPlan
        /\ (pc = "done" /\ wrote = 1) =>
              DateSet(file.rows) =
                  (IF file0.st = "ok" THEN DateSet(file0.rows) ELSE {}) \cup FetchedDates

C14_Witness ==
    /\ dbStatus = "error" /\ db = today
    /\ pc = "done" /\ HadRows /\ FileMax < today
    /\ calls = << <<FileMax + 1, to_date>> >>
    /\ wrote = 1 /\ FetchedDates # {}

\* the fetches of a run without a file
NoFilePlan ==
    IF db # NoDate
    THEN (IF db + 1 <= to_date THEN << <<db + 1, to_date>> >> ELSE <<>>)
    ELSE << <<from_date, to_date>> >>

\* C15: an existing file that cannot be read, or whose date column cannot be
\* parsed, is treated as absent: download_stock_data does not raise and
\* plans its fetches as if no file existed, from the database max date when
\* present, otherwise the entire [from, to].  (Stated for invocations that do
\* not short-circuit, well-ordered requests and fetches that do not fail.)
C15_UnreadableIsAbsent ==
    (Finished /\ file0 = Corrupt /\ db # today /\ from_date <= to_date /\ failed = {}) =>
        (pc = "done" /\ calls = NoFilePlan)

NoNullDate(df) == \A i \in DOMAIN df : df[i].date \in Dates

\* C16: a record whose date cannot be parsed never reaches storage: every
\* row of a file written by download_stock_data has a valid date, the raw
\* rows with an unparseable date being dropped by the normalizers of both
\* sources; and an invocation that finds a null date in the existing file
\* writes nothing (it short-circuits or raises before the merge).
C16_NoNullDateStored ==
    /\ fileWritten => NoNullDate(file.rows)
    /\ (Finished /\ file0.st = "ok" /\ ~NoNullDate(file0.rows)) =>
          (wrote = 0 /\ file = file0)

C16_Witness ==
    /\ pc = "done" /\ wrote = 1
    /\ badSeen /\ Len(calls) = 2 /\ failed = {}
    /\ Len(file.rows) >= 2

\* ------------------------------------------- properties of the resolver
\* the primary raised a KeyError whose message contains "CH_"
PrimaryNoData ==
    /\ primary # <<>>
    /\ primary[1].kind = "raise"
    /\ primary[1].exc.type = "KeyError" /\ primary[1].exc.ch

\* C11: when the primary raises a KeyError whose message contains "CH_", the
\* resolver returns the empty canonical table and the secondary source is
\* never invoked for the sub-range.
C11_NoDataIsTerminal ==
    PrimaryNoData =>
        /\ rpc = "returned" /\ result = Some(EmptyDf)
        /\ secondary = <<>> /\ chunkCalls = <<>>

C11_Witness ==
    /\ PrimaryNoData /\ rpc = "returned" /\ rf < rt
    /\ result = Some(EmptyDf)

\* the primary timed out or raised anything but the "CH_" KeyError
PrimaryFailed ==
    /\ primary[1].kind = "raise"
    /\ \/ primary[1].exc.type = "TimeoutError"
       \/ primary[1].exc.type = "Exception"
       \/ primary[1].exc.type = "KeyError" /\ ~primary[1].exc.ch

C19_EmptyIndexRaises ==
    /\ (ipc # "fetch" /\ iresp = "empty") =>
          (ipc = "raised" /\ ierr = "FileNotFoundError" /\ iwrote = 0 /\ ifile = ifile0)
    /\ (ipc # "fetch" /\ iresp = "timeout") =>
          (ipc = "raised" /\ ierr = "TimeoutError" /\ iwrote = 0 /\ ifile = ifile0)
    /\ (ipc # "fetch" /\ iresp \in {"error", "none"}) =>
          (ipc = "raised" /\ ierr \in {"Exception", "AttributeError"}
              /\ iwrote = 0 /\ ifile = ifile0)

C19_Witness ==
    /\ ipc = "raised" /\ iresp = "empty" /\ ierr = "FileNotFoundError"
    /\ icalls = << <<ifrom, ito>> >> /\ ifrom < ito
    /\ ifile0.st = "ok" /\ Len(ifile0.rows) = 2 /\ ifile = ifile0

\* ------------------------------------------- properties of the batch drivers
\* C17: a failure of to_csv while the merged file is written leaves
\* download_stock_data as an exception (nothing is returned), and
\* download_all_stocks counts that symbol as failed, not as successful, and
\* goes on to the entries after it.
C17_WriteFailurePropagates ==
    /\ err = "OSError" => (pc = "raised" /\ returned = None /\ wrote = 0)
    /\ driver = "stocks" =>
          /\ \A k \in DOMAIN errs :
                errs[k] = "OSError" =>
                    /\ marks[k] = "failed"
                    /\ \E j \in DOMAIN failed_downloads : failed_downloads[j] = symbols[k]
          /\ Len(marks) = Len(errs)
          /\ (bpc = "raised" => berr = "ZeroDivisionError")
          /\ (bpc = "done" => attempted = symbols)

C17_Witness ==
    /\ driver = "stocks" /\ bpc = "done" /\ Len(symbols) = 2
    /\ errs = <<"OSError", "-">>
    /\ marks = <<"failed", "ok">>
    /\ failed_downloads = <<symbols[1]>>
    /\ successful_downloads = 1

\* C18: both drivers hand each entry of the list to the client exactly once
\* and in list order, whatever the earlier entries did, and when the loop
\* has ended successful_downloads + len(failed_downloads) = len(symbols).
C18_EveryEntryOnce ==
    bpc # "idle" =>
        /\ bi <= Len(symbols)
        /\ attempted = SubSeq(symbols, 1, bi)
        /\ successful_downloads + Len(failed_downloads) = Len(errs)
        /\ Len(errs) = IF bpc = "call" THEN bi - 1 ELSE bi
        /\ (bpc \in {"done", "raised"} =>
              /\ attempted = symbols
              /\ successful_downloads + Len(failed_downloads) = Len(symbols))

C18_Witness ==
    /\ driver = "indices" /\ bpc = "done" /\ Len(symbols) = 2
    /\ attempted = symbols
    /\ marks = <<"failed", "ok">>
    /\ errs[1] = "TimeoutError"
    /\ successful_downloads = 1 /\ Len(failed_downloads) = 1

\* --------------------------------------------- properties of concurrent runs
\* the frame of run p, and the cache directory as it is now
FrameOf(p) == IF p = cur THEN Frame ELSE saved
FilesNow == [cfiles EXCEPT ![cpath[cur]] = file]
HasRead(p) == FrameOf(p).pc \notin {"db", "read"}
Ended(p) == FrameOf(p).pc \in {"done", "raised"}

\* C20 (different symbols): two concurrent runs for different symbols use
\* different files, and whatever the interleaving each run reads the file it
\* would read running alone and leaves in it what it would leave running
\* alone, so the files end as after the two runs in sequence.
C20_DisjointSymbols ==
    (cur # 0 /\ csym[1] # csym[2]) =>
        /\ cpath[1] # cpath[2]
        /\ \A p \in {1, 2} :
              /\ HasRead(p) => FrameOf(p).existing_df = LoadExisting(cfiles0[cpath[p]])
              /\ Ended(p) =>
                    FilesNow[cpath[p]] =
                        IF FrameOf(p).wrote = 1 THEN Csv(Get(FrameOf(p).returned))
                        ELSE cfiles0[cpath[p]]
        /\ \A n \in FileNames : n \notin {cpath[1], cpath[2]} => FilesNow[n] = cfiles0[n]

\* the dates of the tables run p fetched
FetchedBy(p) ==
    UNION {DateSet(FrameOf(p).new_data_list[i]) : i \in DOMAIN FrameOf(p).new_data_list}

\* C20 (same symbol): a run writes the rows it read merged with the rows it
\* fetched, whatever was written to the file since it read it. So there is
\* an interleaving of two runs for one symbol (both read the file before
\* either writes it) after which the file lacks a row one of them wrote.
C20_WritesWhatItRead ==
    \A p \in {1, 2} :
        (cur # 0 /\ FrameOf(p).wrote = 1) =>
            DateSet(Get(FrameOf(p).returned)) =
                (IF IsNone(FrameOf(p).existing_df) THEN {}
                 ELSE DateSet(Get(FrameOf(p).existing_df))) \cup FetchedBy(p)

C20_Concurrency == C20_DisjointSymbols /\ C20_WritesWhatItRead

LostRow(p) ==
    \E i \in DOMAIN Get(FrameOf(p).returned) :
        Get(FrameOf(p).returned)[i].date \notin DateSet(FilesNow[cpath[p]].rows)

C20_LostUpdate ==
    /\ cur # 0 /\ csym[1] = csym[2]
    /\ Ended(1) /\ Ended(2)
    /\ FrameOf(1).wrote = 1 /\ FrameOf(2).wrote = 1
    /\ FrameOf(1).existing_df = FrameOf(2).existing_df
    /\ \E p \in {1, 2} : LostRow(p)

\* two runs for different symbols have both ended, each having replaced
\* its own file
C20_DisjointDone ==
    /\ cur # 0 /\ csym[1] # csym[2]
    /\ Ended(1) /\ Ended(2)
    /\ FrameOf(1).wrote = 1 /\ FrameOf(2).wrote = 1
    /\ FilesNow[cpath[1]] # cfiles0[cpath[1]]
    /\ FilesNow[cpath[2]] # cfiles0[cpath[2]]

\* ------------------------------------------------ properties of the write
\* C21: while download_stock_data runs on a readable file, the file is
\* either the file it found or exactly the complete merged table it wrote:
\* never a part of a table, never unreadable.
C21_AtomicReplace ==
    (pc # "idle" /\ file0.st = "ok") =>
        \/ file = file0
        \/ /\ wrote >= 1
           /\ ~IsNone(returned)
           /\ file = Csv(Get(returned))

\* C22: the file download_index_data has written, when it returns, holds at
\* most one record per date.
C22_IndexOneRowPerDate ==
    (ipc = "done" /\ iwrote >= 1 /\ ifile.st = "ok") => Unique(ifile.rows)

\* C23: when the index file exists with rows, download_index_data does not
\* ask the provider for the whole requested range again when the file has a
\* date within it, and the dates the file held are still in it afterwards.
C23_IndexIncremental ==
    (ipc \in {"save", "done"} /\ ifrom <= ito /\ ifile0.st = "ok" /\ ifile0.rows # <<>>) =>
        /\ (\E d \in DateSet(ifile0.rows) : ifrom <= d /\ d <= ito) =>
              \A k \in DOMAIN icalls : icalls[k] # <<ifrom, ito>>
        /\ ipc = "done" => DateSet(ifile0.rows) \subseteq DateSet(ifile.rows)

\* ------------------------------------- properties of the chunked fetcher
\* the chunked fetcher has been entered
InSecondary == secondary # <<>>
LastWindow == chunkCalls[Len(chunkCalls)]
ChunkFailed(k) == chunkOut[k].kind \in {"timeout", "error"}

\* C24: entered with from strictly after to, the chunked fetcher returns at
\* once the empty table with the thirteen canonical columns, and no window
\* is asked of the provider.
C24_InvertedRangeEmpty ==
    (InSecondary /\ rf > rt) =>
        /\ rpc = "returned"
        /\ result = Some(<<>>)
        /\ resultCols = {"DATE", "OPEN", "HIGH", "LOW", "PREVCLOSE", "LTP", "CLOSE", "VWAP",
                         "VOLUME", "VALUE", "NOOFTRADES", "SYMBOL", "SERIES"}
        /\ chunkCalls = <<>>
        /\ chunkOut = <<>>

C24_Witness ==
    /\ rpc = "returned" /\ rf > rt
    /\ secondary = << <<rf, rt>> >>
    /\ primary[1].exc.type = "TimeoutError"
    /\ chunkCalls = <<>>
    /\ result = Some(<<>>)

\* C25: for from <= to the windows asked of the provider are, in call order,
\* the ascending partition of [from, to]: the first starts at from, each
\* spans at least one and at most chunk_days days, each next one starts the
\* day after the previous one's end, none ends after to, and when the
\* fetcher returns the last one ends at to; this whatever each window's
\* fetch did.
C25_ChunksPartitionRange ==
    (InSecondary /\ rf <= rt) =>
        /\ Len(chunkOut) = Len(chunkCalls)
        /\ \A k \in DOMAIN chunkCalls :
              /\ chunkCalls[k][1] <= chunkCalls[k][2]
              /\ chunkCalls[k][2] - chunkCalls[k][1] + 1 <= chunk_days
              /\ chunkCalls[k][2] <= rt
              /\ k = 1 => chunkCalls[k][1] = rf
              /\ k > 1 => chunkCalls[k][1] = chunkCalls[k - 1][2] + 1
        /\ rpc # "chunks" => (chunkCalls # <<>> /\ LastWindow[2] = rt)

C25_Witness ==
    /\ rpc = "returned" /\ InSecondary
    /\ rf = 1 /\ rt = 4 /\ chunk_days = 2
    /\ chunkCalls = << <<1, 2>>, <<3, 4>> >>
    /\ chunkOut[1].kind = "timeout" /\ chunkOut[2].kind = "returned"

\* the dates of the rows of window k that the fetcher can use
UsableDates(k) ==
    IF chunkOut[k].kind = "returned" /\ chunkOut[k].hasDate
    THEN {chunkOut[k].raw[i].date : i \in DOMAIN chunkOut[k].raw} \cap Dates
    ELSE {}

\* C26: a timeout or another exception in one window does not leave the
\* fetcher; that window is not asked again, the next window asked starts
\* the day after it, the windows up to to are all asked, and the dates of
\* the windows that were fetched are in the result.
C26_FailedChunkSkipped ==
    InSecondary =>
        /\ rpc \in {"chunks", "returned"}
        /\ \A k \in DOMAIN chunkOut :
              ChunkFailed(k) =>
                  /\ \A j \in DOMAIN chunkCalls : j # k => chunkCalls[j] # chunkCalls[k]
                  /\ k < Len(chunkCalls) => chunkCalls[k + 1][1] = chunkCalls[k][2] + 1
                  /\ rpc = "returned" => LastWindow[2] = rt
                  /\ rpc = "returned" =>
                        \A j \in DOMAIN chunkOut : UsableDates(j) \subseteq DateSet(Get(result))

C26_Witness ==
    /\ rpc = "returned" /\ InSecondary
    /\ Len(chunkOut) = 3
    /\ chunkOut[1].kind = "returned" /\ UsableDates(1) # {}
    /\ chunkOut[2].kind = "error"
    /\ chunkOut[3].kind = "returned" /\ UsableDates(3) # {}
    /\ UsableDates(1) # UsableDates(3)
    /\ Len(Get(result)) = 2

\* the usable rows of the windows, by window and position
UsableAt == {<<k, i>> \in (DOMAIN chunkOut) \X (1..MaxChunkRows + 1) :
                /\ i \in DOMAIN chunkOut[k].raw
                /\ chunkOut[k].raw[i].date \in UsableDates(k)}
Later(a, b) == a[1] > b[1] \/ (a[1] = b[1] /\ a[2] > b[2])
LastFor(d) ==
    CHOOSE a \in UsableAt :
        /\ chunkOut[a[1]].raw[a[2]].date = d
        /\ \A b \in UsableAt : chunkOut[b[1]].raw[b[2]].date = d => ~Later(b, a)

\* C27: the table the chunked fetcher returns has one row for each date
\* among the usable rows of the windows that were fetched, that row being
\* the last one of its date in window order, the rows ascending by date; its
\* columns are the thirteen canonical ones, also when no window gave a row,
\* whether for lack of data or for errors.
C27_ChunkedResult ==
    (InSecondary /\ rf <= rt /\ rpc = "returned") =>
        /\ \A i \in 1..(Len(Get(result)) - 1) : Get(result)[i].date < Get(result)[i + 1].date
        /\ DateSet(Get(result)) = UNION {UsableDates(k) : k \in DOMAIN chunkOut}
        /\ \A i \in DOMAIN Get(result) :
              Get(result)[i].val =
                  chunkOut[LastFor(Get(result)[i].date)[1]].raw[LastFor(Get(result)[i].date)[2]].val
        /\ resultCols = {"DATE", "OPEN", "HIGH", "LOW", "PREVCLOSE", "LTP", "CLOSE", "VWAP",
                         "VOLUME", "VALUE", "NOOFTRADES", "SYMBOL", "SERIES"}

C27_Witness ==
    /\ rpc = "returned" /\ InSecondary
    /\ Len(chunkOut) = 4
    /\ chunkOut[1].kind = "returned" /\ UsableDates(1) = {2} /\ chunkOut[1].raw[1].val = "x"
    /\ chunkOut[2].kind = "timeout"
    /\ chunkOut[3].kind = "returned" /\ UsableDates(3) = {2} /\ chunkOut[3].raw[1].val = "y"
    /\ chunkOut[4].kind = "returned" /\ UsableDates(4) = {1}
    /\ Get(result)[1].date = 1
    /\ Get(result)[2] = [date |-> 2, val |-> "y"]

\* ------------------------------------------ properties of the fetch plan
\* both the backfill and the extension were fetched and the file written
BothFetched ==
    /\ pc = "done" /\ wrote = 1 /\ HadRows
    /\ Len(calls) = 2 /\ Len(new_data_list) = 2

\* the merge of the same tables with the two fetched tables in the other order
OtherOrder ==
    Combined(AllData(existing_df, <<new_data_list[2], new_data_list[1]>>))

\* the two fetched tables have the same row for every date they share
Agree(a, b) ==
    \A i \in DOMAIN a, j \in DOMAIN b : a[i].date = b[j].date => a[i] = b[j]

\* C28 as stated: whatever the backfill and the extension returned, merging
\* them in the other order gives the file that was written.
C28_AsStated == BothFetched => file.rows = OtherOrder

\* C28 amended: merging the backfill and the extension in the other order
\* gives the file that was written, for every pair of results that hold the
\* same row for each date they share.
C28_EitherOrder ==
    (BothFetched /\ Agree(new_data_list[1], new_data_list[2])) => file.rows = OtherOrder

C28_Witness ==
    /\ BothFetched
    /\ new_data_list[1] # <<>> /\ new_data_list[2] # <<>>
    /\ new_data_list[1] # new_data_list[2]
    /\ file.rows = OtherOrder
    /\ Len(file.rows) = 3

\* C29: every range given to the resolver is a non-empty part of the
\* requested [from, to] and holds no date of the file's [fileMin, fileMax].
\* (Read in the claim's favour: for a request with from <= to and no
\* database.)
C29_OnlyMissingRanges ==
    (from_date <= to_date /\ db = NoDate /\ pc # "idle") =>
        \A k \in DOMAIN calls :
            /\ calls[k][1] <= calls[k][2]
            /\ from_date <= calls[k][1]
            /\ calls[k][2] <= to_date
            /\ HadRows => (calls[k][2] < FileMin \/ calls[k][1] > FileMax)

\* ------------------------------------- properties of the database lookup
\* the positions of event e in the connection log
At(e) == {i \in DOMAIN dbLog : dbLog[i] = e}

\* C30: once the max-date lookup is over (the file is not read yet, no fetch
\* is issued yet) and from then on, every connection the lookup opened was
\* opened read-only and has been closed, whether the query gave a date, gave
\* none or failed; the only statement executed is the SELECT; and no step of
\* download_stock_data changes what the database holds.
C30_LookupClosed ==
    pc \notin {"idle", "db"} =>
        /\ \A i \in DOMAIN dbLog :
              dbLog[i] \in {"connect_read_only", "connect_failed", "select", "select_failed",
                            "close"}
        /\ Cardinality(At("connect_read_only")) = Cardinality(At("close"))
        /\ \A i \in At("connect_read_only") : \E j \in At("close") : j > i
        /\ dbStatus \in {"ok", "error"} <=> dbLog # <<>>
        /\ pc = "read" => (existing_df = None /\ calls = <<>>)

C30_ReadOnlyLookup == []C30_LookupClosed /\ [][db' = db]_vars

C30_Witness ==
    /\ pc = "read"
    /\ dbStatus = "error" /\ db # NoDate
    /\ dbLog = <<"connect_read_only", "select_failed", "close">>
    /\ db_max_date = NoDate
    /\ calls = <<>>

\* the alarm is pending only inside an attempt's with statement, and
\* TimeoutError was raised nowhere else
ExpiryWithinAttempt ==
    /\ alarm => tphase \in Attempts /\ tpc \in {"body", "cancel"}
    /\ \A h \in hits : h[1] \in Attempts /\ h[2] \in {"body", "cancel"}

\* C31: a timeout is scoped to exactly one fetch attempt: the alarm is pending
\* only inside an attempt's with statement (primary call, chunk call or index
\* call), TimeoutError is never raised outside an attempt, and every exit from
\* the attempt leaves no alarm pending and the handler that was installed
\* before the attempt restored
C31_TimeoutScoped ==
    /\ ExpiryWithinAttempt
    /\ tpc = "left" => alarm = FALSE /\ handler = oldHandler

\* two names are the same but for the case of their letters and for their
\* characters that are neither letters nor digits
RECURSIVE SameName(_, _)
SameName(a, b) ==
    IF a # <<>> /\ ~IsAlnum(Head(a)) THEN SameName(Tail(a), b)
    ELSE IF b # <<>> /\ ~IsAlnum(Head(b)) THEN SameName(a, Tail(b))
    ELSE IF a = <<>> \/ b = <<>> THEN a = b
    ELSE Lower(Head(a)) = Lower(Head(b)) /\ SameName(Tail(a), Tail(b))

\* the raw columns that alias k of canonical column i matches
Matching(i, k) == {c \in Range(rawCols) : SameName(c, Aliases[i][k])}

\* the aliases of canonical column i that match some raw column
Hits(i) == {k \in DOMAIN Aliases[i] : Matching(i, k) # {}}

\* the secondary normalizer has produced the table of one chunk
NselibDone == npc = "done" /\ normalizer = "nselib"

\* canonical column i is taken from a raw column that its first matching alias
\* matches
FirstAliasWins(i) ==
    LET matched == Hits(i)
    IN matched # {} =>
          outFrom[i].src = "raw" /\ outFrom[i].col \in Matching(i, SetMin(matched))

\* the secondary normalizer raises nothing, and gives up a table only when
\* it is empty or has no date column
NoResolutionError ==
    NselibDone =>
        /\ nout \in {"df", "skipped"}
        /\ nout = "skipped" <=> RawEmpty(rawCols, rawRows) \/ Hits(DateAt) = {}

\* C32 as stated: in the secondary normalizer every canonical field is taken
\* from the raw column matched by the first alias that matches (ignoring case
\* and non-alphanumeric characters), and every non-date field that no alias
\* matches is a column of the output that is entirely null; no error
C32_AsStated ==
    /\ NoResolutionError
    /\ NselibDone /\ nout = "df" =>
          /\ outCols = Preferred
          /\ \A i \in DOMAIN Preferred \ {SymbolAt} :
                /\ FirstAliasWins(i)
                /\ Hits(i) = {} => outFrom[i] = Null

\* C32: as above, except that SERIES, when no alias matches, is filled with
\* the series argument or the default series instead of being null
C32_ColumnResolution ==
    /\ NoResolutionError
    /\ NselibDone /\ nout = "df" =>
          /\ outCols = Preferred
          /\ \A i \in DOMAIN Preferred \ {SymbolAt} :
                /\ FirstAliasWins(i)
                /\ Hits(i) = {} =>
                      outFrom[i] = IF i = SeriesAt THEN Filled(SeriesOr(seriesArg)) ELSE Null

\* a table whose open column is spelled unlike every alias and which has no
\* column for the other prices
C32_Witness ==
    /\ NselibDone /\ nout = "df"
    /\ \E i \in DOMAIN Preferred :
          /\ outFrom[i].src = "raw"
          /\ outFrom[i].col \notin Range(Aliases[i])
          /\ i # DateAt
    /\ \E i \in DOMAIN Preferred : outFrom[i] = Null

\* a raw column that the normalizer at work knows under no name
Unrecognized(c) ==
    IF normalizer = "nselib"
    THEN \A i \in DOMAIN Aliases : \A k \in DOMAIN Aliases[i] : ~SameName(c, Aliases[i][k])
    ELSE Rename(c) \notin Range(Preferred) /\ c \notin {High52W, Low52W}

\* the output's columns are canonical ones in the preferred order, followed
\* by the raw table's unrecognized columns in their original order
PreferredThenExtras ==
    LET canon == SelectSeq(outCols, LAMBDA c : c \in Range(Preferred))
    IN /\ canon = SelectSeq(Preferred, LAMBDA c : c \in Range(canon))
       /\ outCols = canon \o SelectSeq(rawCols, Unrecognized)

\* the primary normalizer orders its columns so
JugaadPreferredThenExtras ==
    npc = "done" /\ normalizer = "jugaad" /\ nout = "df" /\ ~RawEmpty(rawCols, rawRows)
        => PreferredThenExtras

\* C34: the output columns of a normalizer are in the fixed preferred order
\* and every unrecognized extra column of the raw table is kept, appended
\* after them in its original order
C34_PreferredThenExtras ==
    npc = "done" /\ nout = "df" /\ ~RawEmpty(rawCols, rawRows) => PreferredThenExtras

\* the primary normalizer was given a non-empty table
JugaadDone ==
    npc = "done" /\ normalizer = "jugaad" /\ ~RawEmpty(rawCols, rawRows)

\* position of column c in the output, 0 when it is not there
OutAt(c) == IF c \in Range(outCols) THEN CHOOSE i \in DOMAIN outCols : outCols[i] = c ELSE 0

\* the raw column `from` is in the output under the name `to`, and under no
\* other
RenamedTo(from, to) ==
    from \in Range(rawCols) =>
        /\ from \notin Range(outCols)
        /\ OutAt(to) # 0 /\ outFrom[OutAt(to)] = FromRaw(from)

\* column c is in the output: the source's when it has one, else filled with v
Ensured(c, v) ==
    /\ OutAt(c) # 0
    /\ outFrom[OutAt(c)] = IF c \in Range(rawCols) THEN FromRaw(c) ELSE Filled(v)

\* the rows are those of the raw table with a parseable date, one per date
\* (the last one of the raw table), in ascending date order
LastPerDateAscending ==
    /\ {outRows[k].date : k \in DOMAIN outRows}
          = {rawRows[i].date : i \in DOMAIN rawRows} \cap Dates
    /\ \A k \in 1..(Len(outRows) - 1) : outRows[k].date < outRows[k + 1].date
    /\ \A k \in DOMAIN outRows :
          outRows[k].val
            = rawRows[SetMax({i \in DOMAIN rawRows : rawRows[i].date = outRows[k].date})].val

\* C35: the primary normalizer, given a non-empty table with a DATE column,
\* renames 'PREV. CLOSE' to PREVCLOSE and 'NO OF TRADES' to NOOFTRADES, drops
\* '52W H' and '52W L', fills SYMBOL with the requested symbol and SERIES with
\* the given or default series when the source has none, drops the rows with
\* an unparseable date and returns one row per date (the last), ascending;
\* without a DATE column it raises KeyError
C35_PrimaryNormalizer ==
    JugaadDone =>
        IF Preferred[DateAt] \in Range(rawCols)
        THEN /\ nout = "df"
             /\ RenamedTo(PrevDotClose, <<"P", "R", "E", "V", "C", "L", "O", "S", "E">>)
             /\ RenamedTo(NoOfTradesSpaced, <<"N", "O", "O", "F", "T", "R", "A", "D", "E", "S">>)
             /\ High52W \notin Range(outCols) /\ Low52W \notin Range(outCols)
             /\ Ensured(Preferred[SymbolAt], "symbol")
             /\ Ensured(Preferred[SeriesAt],
                        IF seriesArg = None THEN DefaultSeries ELSE Get(seriesArg))
             /\ LastPerDateAscending
        ELSE nout = "KeyError"

\* a table with 'PREV. CLOSE' and a 52-week column, no SERIES, and two rows of
\* one date that differ
C35_Witness ==
    /\ JugaadDone /\ nout = "df"
    /\ PrevDotClose \in Range(rawCols)
    /\ High52W \in Range(rawCols)
    /\ Len(rawRows) = 2 /\ Len(outRows) = 1
    /\ rawRows[1].val # rawRows[2].val

\* a table with rows of unparseable dates, SERIES given by the source
C35_BadDatesDropped ==
    /\ JugaadDone /\ nout = "df"
    /\ Preferred[SeriesAt] \in Range(rawCols)
    /\ Len(rawRows) = 2 /\ Len(outRows) = 1
    /\ rawRows[1].date = BadText

\* the characters of the cell that are digits, signs or points, in order
RECURSIVE Kept(_)
Kept(s) ==
    IF s = <<>> THEN <<>>
    ELSE IF Head(s) \in {"0", "1", "2", "3", "4", "5", "6", "7", "8", "9", "+", "-", "."}
    THEN <<Head(s)>> \o Kept(Tail(s))
    ELSE Kept(Tail(s))

AllDigits(x) == \A i \in DOMAIN x : x[i] \in {"0", "1", "2", "3", "4", "5", "6", "7", "8", "9"}

\* the ways to read the text s as sign, integer digits, point, fraction digits
Readings(s) ==
    {r \in [sign : {<<>>, <<"+">>, <<"-">>}, i : 0..Len(s), point : {<<>>, <<".">>}] :
        LET a == SubSeq(s, Len(r.sign) + 1, r.i)
            b == SubSeq(s, r.i + Len(r.point) + 1, Len(s))
        IN /\ Len(r.sign) <= r.i /\ r.i + Len(r.point) <= Len(s)
           /\ s = r.sign \o a \o r.point \o b
           /\ AllDigits(a) /\ AllDigits(b) /\ Len(a) + Len(b) > 0
           /\ r.point = <<>> => b = <<>>}

\* C33: numeric cleaning never raises: the characters that are not digits,
\* signs or points are stripped, what is left is parsed, "1,234.50" becomes
\* 1234.5, and a text that is no number after stripping (empty, a lone dash)
\* becomes null
C33_NumericCleaning ==
    cellpc = "done" =>
        /\ parsed.kind \in {"num", "nan"}
        /\ cleaned = Kept(rawCell)
        /\ Readings(Kept(rawCell)) = {} <=> parsed = NaN
        /\ \A r \in Readings(Kept(rawCell)) :
              LET s == Kept(rawCell)
              IN /\ parsed.units = IntOf(SubSeq(s, Len(r.sign) + 1, r.i))
                 /\ parsed.neg => r.sign = <<"-">>
        /\ rawCell = Cell1234 => parsed = [kind |-> "num", neg |-> FALSE, units |-> 1234, frac |-> <<"5">>]
        /\ Kept(rawCell) \in {<<>>, <<"-">>} => parsed = NaN

\* "1,234.50" has been cleaned and parsed
C33_Witness == cellpc = "done" /\ rawCell = Cell1234 /\ parsed # NaN

\* a cell with a currency sign and no digit
C33_NullCell ==
    cellpc = "done" /\ Len(rawCell) = 2 /\ rawCell[1] = "RUPEE" /\ parsed = NaN

\* the invocation found no file, made at least one fetch, and every fetch
\* returned an empty table
OnlyEmptyFetches ==
    /\ file0 = Absent
    /\ calls # <<>>
    /\ failed = {}
    /\ Len(new_data_list) = Len(calls)
    /\ \A i \in DOMAIN new_data_list : new_data_list[i] = EmptyDf

\* C36: when no file exists and every fetch of the invocation returned an
\* empty table, the invocation ends normally, having written the file with
\* the header and no rows, and returns an empty table
C36_EmptyFileWritten ==
    /\ (pc = "merge" /\ OnlyEmptyFetches) => ENABLED MergeAndSave
    /\ (Finished /\ OnlyEmptyFetches) =>
          /\ pc = "done" /\ err = "-"
          /\ wrote = 1
          /\ file = Csv(EmptyDf)
          /\ returned = Some(EmptyDf)

C36_Witness ==
    /\ pc = "done" /\ OnlyEmptyFetches
    /\ file = Csv(EmptyDf)
    /\ db_max_date = NoDate

\* a load has ended, by return or by exception
LoadEnded == lpc \in {"done", "raised"}

\* every CSV file holds one row per date at most
OneRowPerDateCsvs == \A s \in Symbols : Unique(csvs[s])

\* the rows of the CSV file of s dated after the latest row the table held
\* for s when the load began
Newer(s) ==
    {r \in Selected(csvs[s], s) :
        \A x \in prices0 : x.symbol = s => x.date < r.date}

\* C37: a load inserts exactly the CSV rows dated after the table's max date
\* for their symbol (all rows of a symbol the table has not), each once, and
\* a load over unchanged CSV files inserts nothing (stated here for CSV files
\* with one row per date)
C37_IncrementalLoad ==
    (LoadEnded /\ OneRowPerDateCsvs) =>
        /\ prices = prices0 \cup UNION {Newer(s) : s \in Symbols}
        /\ csvs = csvsLoaded /\ loads > 0 => prices = prices0

\* ceil((to - from + 1 day) / chunk_days)
WindowsNeeded == (rt - rf + 1 + chunk_days - 1) \div chunk_days

\* C38: for from <= to and a chunk size of one day or more, the chunked
\* fetcher ends, by returning, after exactly ceil((to - from + 1) / N) windows
\* asked of the provider, whatever each window's outcome was; until then
\* every pass of the loop has moved start forward by one whole window.
C38_ChunkAttempts ==
    (InSecondary /\ rf <= rt /\ chunk_days >= 1) =>
        /\ Len(chunkCalls) <= WindowsNeeded
        /\ rpc \in {"chunks", "returned"}
        /\ (rpc = "chunks" /\ start <= rt) =>
              /\ start = rf + Len(chunkCalls) * chunk_days
              /\ Len(chunkCalls) < WindowsNeeded
        /\ (rpc = "returned" \/ start > rt) => Len(chunkCalls) = WindowsNeeded

\* three days in windows of two: the first window raises, the second comes
\* back without a date column, and the fetcher has returned after two attempts
C38_Witness ==
    /\ rpc = "returned" /\ InSecondary
    /\ rf = 1 /\ rt = 3 /\ chunk_days = 2
    /\ Len(chunkCalls) = 2
    /\ chunkOut[1].kind = "error"
    /\ chunkOut[2].kind = "returned" /\ ~chunkOut[2].hasDate

\* the dates of the rows of a file; a blank date cell is no date
StoredDates(f) == DateSet(f.rows) \ {NaT}

\* C39: when the file download_stock_data finds is readable, every date it
\* held is in the file during and after the invocation, whatever each fetch
\* returned and whichever fetches failed: the merge adds to the stored
\* history and never takes from it.
C39_HistoryKept ==
    (pc # "idle" /\ file0.st = "ok") =>
        /\ file.st = "ok"
        /\ StoredDates(file0) \subseteq StoredDates(file)

\* a file with rows was merged with one fetched table while the other fetch
\* failed, and the file was rewritten with more dates than it had
C39_Witness ==
    /\ pc = "done" /\ wrote = 1
    /\ HadRows
    /\ Len(calls) = 2 /\ Cardinality(failed) = 1
    /\ StoredDates(file0) # StoredDates(file)
    /\ StoredDates(file0) \subseteq StoredDates(file)

\* how far an invocation has come: the lookup, the file read, the
\* short-circuit test, the first fetch, the second fetch, the merge, the end
Stage(p) ==
    CASE p = "idle" -> 0
      [] p = "db" -> 1
      [] p = "read" -> 2
      [] p = "check" -> 3
      [] p \in {"before", "dbafter", "full"} -> 4
      [] p = "after" -> 5
      [] p = "merge" -> 6
      [] p \in {"done", "raised"} -> 7

\* what holds at every point of an invocation
WriteLast ==
    /\ wrote <= 1
    /\ wrote = 1 => (pc = "done" /\ calls # <<>> /\ new_data_list # <<>>)
    /\ pc \in {"db", "read", "check"} => (calls = <<>> /\ wrote = 0 /\ file = file0)
    /\ Stage(pc) \in 4..6 => (wrote = 0 /\ file = file0)
    /\ (Finished /\ (calls = <<>> \/ new_data_list = <<>>)) => (wrote = 0 /\ file = file0)

\* what every step of an invocation does
InOrder ==
    /\ pc' # "idle" => Stage(pc') > Stage(pc)
    /\ dbLog' # dbLog => pc = "db"
    /\ existing_df' # existing_df => (pc = "read" \/ pc' = "idle")
    /\ calls' # calls => (Stage(pc) \in 4..5 /\ wrote = 0) \/ pc' = "idle"
    /\ file' # file => (pc = "merge" /\ pc' = "done" /\ wrote = 0 /\ wrote' = 1)

\* C40: within one invocation of download_stock_data the database lookup
\* comes first, then the file read, then the fetches, then the write: the
\* file is written once at most, after the last fetch, and not at all when
\* the invocation short-circuits or has fetched no table.
C40_StepOrder == []WriteLast /\ [][InOrder]_vars

\* an invocation that looked the database up, read a file with rows, made
\* both fetches and then wrote the file
C40_Witness ==
    /\ pc = "done" /\ wrote = 1
    /\ dbLog = <<"connect_read_only", "select", "close">>
    /\ HadRows
    /\ Len(calls) = 2
    /\ file # file0

\* an invocation that fetched nothing new has ended without a write
C40_NoWrite ==
    /\ pc = "done" /\ HadRows /\ ~SkipApplies
    /\ new_data_list = <<>>
    /\ wrote = 0 /\ file = file0

====
